---- MODULE Spec2Model ----
(***************************************************************************)
(* A model of klo (keyboard layout optimizer): the ngram corpus pipeline   *)
(* of src/src/ngrams.rs, the layouts of src/src/layout.rs, the option      *)
(* post-processing of src/src/klo_options.rs and the layout part of        *)
(* evolve_a_layout of src/src/check_neo.rs.                                *)
(*                                                                         *)
(* Conventions.                                                            *)
(*  - A Rust String is a sequence of one-character strings: "1 a" is       *)
(*    <<"1", " ", "a">>.                                                   *)
(*  - An f64 is an IEEE 754 binary64 value: a sign, an odd mantissa of at  *)
(*    most 53 bits and an exponent, or an infinity, or NaN.  Every         *)
(*    operation rounds its exact result to the nearest f64, ties to even.  *)
(*  - A panic (unwrap on None/Err, index out of bounds) is the value       *)
(*    Panic; operators propagate it as the unwinding does.                 *)
(***************************************************************************)
EXTENDS Integers, Sequences, FiniteSets, TLC

VARIABLES
    rd_contents,   \* read_pregenerated_file: the lines of the file read
    rd_data,       \* read_pregenerated_file: what the call returned
    rd_pc,         \* "start" before the call, "done" after it
    tx_weight,     \* parse_text_ngrams: the weight argument
    tx_text,       \* parse_text_ngrams: the characters of the file at path
    tx_raw,        \* parse_text_ngrams: the RawNGrams returned
    tx_pc,         \* "start" before the call, "done" after it
    configured,    \* KloOptions as parsed: [steps, anneal, anneal_step], each a u128
    options,       \* KloOptions as post_parse_checks leaves them, or Panic
    opt_pc,        \* "start" before post_parse_checks, "done" after it
    ng_config,     \* from_config: the lines of the ngrams config file
    ng_raw,        \* from_config: raw_vec, one Option<RawNGrams> per line
    ng_norm,       \* from_config: normalized, one NormalizedNGrams per source
    ng_out,        \* from_config: what the call returned
    ng_pc,         \* "start" before from_config, "done" after it
    lay_given,     \* the Blueprint handed to Layout::from_blueprint
    lay_layout,    \* the current Layout: its blueprint and its four caches
    lay_swaps,     \* the get_randomized_variant calls since: alphabet and shuffle
    lay_pc,        \* "start" before from_blueprint, "built" after it
    ev_options,    \* evolve_a_layout: the KloOptions it is called with
    ev_ngrams,     \* evolve_a_layout: ngram_data, read and truncated
    ev_layout,     \* evolve_a_layout: the Layout returned by from_args
    ev_new,        \* evolve_a_layout: the Layout get_randomized_variant returned
    ev_calls,      \* the replace_key calls made so far
    ev_pc,         \* "start", then "args" after from_args, then "done"
    dv_before,     \* the Layout as from_blueprint built it
    dv_self,       \* that Layout now, after the methods called on it
    dv_result,     \* what the last method called on it returned
    dv_calls,      \* the names of the methods called on it, in order
    dv_pc          \* "start" before from_blueprint, "built" after it

rd_vars == <<rd_contents, rd_data, rd_pc>>

tx_vars == <<tx_weight, tx_text, tx_raw, tx_pc>>

opt_vars == <<configured, options, opt_pc>>

ng_vars == <<ng_config, ng_raw, ng_norm, ng_out, ng_pc>>

lay_vars == <<lay_given, lay_layout, lay_swaps, lay_pc>>

ev_vars == <<ev_options, ev_ngrams, ev_layout, ev_new, ev_calls, ev_pc>>

dv_vars == <<dv_before, dv_self, dv_result, dv_calls, dv_pc>>

vars == <<rd_vars, tx_vars, opt_vars, ng_vars, lay_vars, ev_vars, dv_vars>>

(***************************************************************************)
(* Generic helpers                                                         *)
(***************************************************************************)
\* Results are tagged so that any two of them can be compared.
Panic == [tag |-> "panic"]

NotRun == [tag |-> "notrun"]

Ok(v) == [tag |-> "ok", val |-> v]

None == [tag |-> "none"]

Some(v) == [tag |-> "some", val |-> v]

RECURSIVE SeqsUpTo(_, _)
\* All sequences over S of length at most n.
SeqsUpTo(S, n) ==
    IF n = 0 THEN {<<>>}
    ELSE LET shorter == SeqsUpTo(S, n - 1)
         IN  shorter \cup {Append(s, x) : s \in {t \in shorter : Len(t) = n - 1}, x \in S}

Last(s) == s[Len(s)]

(***************************************************************************)
(* Natural numbers of any size, for the 53-bit mantissas of f64: a         *)
(* sequence of limbs below LIMB, least significant first, the last limb    *)
(* non-zero; <<>> is 0.  The loops over limbs split their range in two, so *)
(* that the nesting of the evaluation stays logarithmic in the length.     *)
(***************************************************************************)
LIMB == 32768        \* 2^15: a product of two limbs stays below 2^31

LIMB_BITS == 15

RECURSIVE Pow2(_)
\* 2^k for a small k
Pow2(k) == IF k = 0 THEN 1 ELSE 2 * Pow2(k - 1)

\* The greatest and the least element of a non-empty set of integers
MaxOf(S) == CHOOSE i \in S : \A j \in S : j <= i

MinOf(S) == CHOOSE i \in S : \A j \in S : i <= j

\* -1, 0 or 1 as x is negative, zero or positive
SignOf(x) == IF x < 0 THEN -1 ELSE IF x > 0 THEN 1 ELSE 0

\* a without its leading zero limbs
BigTrim(a) == SubSeq(a, 1, MaxOf({0} \cup {i \in DOMAIN a : a[i] # 0}))

\* For 0 <= n < 2^31
BigFromInt(n) == BigTrim(<<n % LIMB, (n \div LIMB) % LIMB, n \div (LIMB * LIMB)>>)

LimbAt(a, i) == IF i \in DOMAIN a THEN a[i] ELSE 0

\* For a value below 2^31
BigToInt(a) == LimbAt(a, 1) + LIMB * LimbAt(a, 2) + LIMB * LIMB * LimbAt(a, 3)

\* The limbs of a sum or product with the carry out of the top limb
WithCarry(sum) == IF sum.carry = 0 THEN sum.limbs ELSE Append(sum.limbs, sum.carry)

RECURSIVE BigAddRange(_, _, _, _, _)
\* Limbs lo..hi of a + b given the carry into limb lo, and the carry out.
BigAddRange(a, b, lo, hi, carry) ==
    IF lo = hi
    THEN LET sum == LimbAt(a, lo) + LimbAt(b, lo) + carry
         IN  [limbs |-> <<sum % LIMB>>, carry |-> sum \div LIMB]
    ELSE LET mid == (lo + hi) \div 2
             low == BigAddRange(a, b, lo, mid, carry)
             high == BigAddRange(a, b, mid + 1, hi, low.carry)
         IN  [limbs |-> low.limbs \o high.limbs, carry |-> high.carry]

BigAdd(a, b) ==
    IF a = <<>> THEN b
    ELSE IF b = <<>> THEN a
    ELSE WithCarry(BigAddRange(a, b, 1, IF Len(a) > Len(b) THEN Len(a) ELSE Len(b), 0))

RECURSIVE BigSubRange(_, _, _, _, _)
\* Limbs lo..hi of a - b given the borrow from limb lo, and the borrow out.
BigSubRange(a, b, lo, hi, borrow) ==
    IF lo = hi
    THEN LET diff == a[lo] - LimbAt(b, lo) - borrow
         IN  IF diff < 0 THEN [limbs |-> <<diff + LIMB>>, borrow |-> 1]
             ELSE [limbs |-> <<diff>>, borrow |-> 0]
    ELSE LET mid == (lo + hi) \div 2
             low == BigSubRange(a, b, lo, mid, borrow)
             high == BigSubRange(a, b, mid + 1, hi, low.borrow)
         IN  [limbs |-> low.limbs \o high.limbs, borrow |-> high.borrow]

\* a - b for a >= b
BigSub(a, b) == IF a = <<>> THEN <<>> ELSE BigTrim(BigSubRange(a, b, 1, Len(a), 0).limbs)

\* The order of two numbers of the same length that differ first, from the
\* top, at limb top; top is 0 when they are equal.
BigCmpAt(a, b, top) == IF top = 0 THEN 0 ELSE SignOf(a[top] - b[top])

\* -1, 0 or 1 as a < b, a = b or a > b
BigCmp(a, b) ==
    IF Len(a) # Len(b) THEN SignOf(Len(a) - Len(b))
    ELSE BigCmpAt(a, b, MaxOf({0} \cup {i \in DOMAIN a : a[i] # b[i]}))

RECURSIVE BigMulSmallRange(_, _, _, _, _)
\* Limbs lo..hi of a * m given the carry into limb lo, and the carry out.
BigMulSmallRange(a, m, lo, hi, carry) ==
    IF lo = hi
    THEN LET prod == a[lo] * m + carry
         IN  [limbs |-> <<prod % LIMB>>, carry |-> prod \div LIMB]
    ELSE LET mid == (lo + hi) \div 2
             low == BigMulSmallRange(a, m, lo, mid, carry)
             high == BigMulSmallRange(a, m, mid + 1, hi, low.carry)
         IN  [limbs |-> low.limbs \o high.limbs, carry |-> high.carry]

\* a * m for 0 <= m < LIMB
BigMulSmall(a, m) ==
    IF m = 0 \/ a = <<>> THEN <<>> ELSE WithCarry(BigMulSmallRange(a, m, 1, Len(a), 0))

\* a * LIMB^n
BigShiftLimbs(a, n) == IF a = <<>> THEN <<>> ELSE [i \in 1..n |-> 0] \o a

RECURSIVE BigMulRange(_, _, _, _)
\* a times the limbs lo..hi of b, each at its place
BigMulRange(a, b, lo, hi) ==
    IF lo = hi THEN BigShiftLimbs(BigMulSmall(a, b[lo]), lo - 1)
    ELSE BigAdd(BigMulRange(a, b, lo, (lo + hi) \div 2),
                BigMulRange(a, b, ((lo + hi) \div 2) + 1, hi))

BigMul(a, b) == IF a = <<>> \/ b = <<>> THEN <<>> ELSE BigMulRange(a, b, 1, Len(b))

\* a * 2^k
BigShl(a, k) ==
    BigShiftLimbs(BigMulSmall(a, Pow2(k % LIMB_BITS)), k \div LIMB_BITS)

\* floor(a / 2^k)
BigShr(a, k) ==
    LET n == k \div LIMB_BITS
        low == Pow2(k % LIMB_BITS)
        high == LIMB \div low
        rest == IF n >= Len(a) THEN <<>> ELSE SubSeq(a, n + 1, Len(a))
    IN  BigTrim([i \in 1..Len(rest) |->
                    (rest[i] \div low) + (LimbAt(rest, i + 1) % low) * high])

RECURSIVE BitLen(_)
\* The number of bits of a small n: 0 for 0
BitLen(n) == IF n = 0 THEN 0 ELSE 1 + BitLen(n \div 2)

BigBitLen(a) ==
    IF a = <<>> THEN 0 ELSE LIMB_BITS * (Len(a) - 1) + BitLen(a[Len(a)])

\* Bit i of a, bit 0 the least significant
BigBit(a, i) ==
    (LimbAt(a, (i \div LIMB_BITS) + 1) \div Pow2(i % LIMB_BITS)) % 2

\* Whether the k lowest bits of a are all 0
BigLowZero(a, k) ==
    /\ \A i \in 1..(k \div LIMB_BITS) : LimbAt(a, i) = 0
    /\ LimbAt(a, (k \div LIMB_BITS) + 1) % Pow2(k % LIMB_BITS) = 0

RECURSIVE TrailingZeros(_)
\* For a small n > 0
TrailingZeros(n) == IF n % 2 = 1 THEN 0 ELSE 1 + TrailingZeros(n \div 2)

\* The zero bits below the lowest non-zero limb, limb first, and in it
ZerosUpTo(a, first) == LIMB_BITS * (first - 1) + TrailingZeros(a[first])

\* For a > 0
BigTrailingZeros(a) == ZerosUpTo(a, MinOf({i \in DOMAIN a : a[i] # 0}))

\* s back to front
Reverse(s) == [i \in 1..Len(s) |-> s[Len(s) + 1 - i]]

RECURSIVE BigDivSmallRange(_, _, _, _, _)
\* Limbs hi down to lo of a divided by d, given the remainder of the limbs
\* above hi: the quotient's limbs hi down to lo, and the remainder left.
BigDivSmallRange(a, d, lo, hi, rem) ==
    IF lo = hi
    THEN LET cur == rem * LIMB + a[lo]
         IN  [limbs |-> <<cur \div d>>, rem |-> cur % d]
    ELSE LET mid == (lo + hi) \div 2
             high == BigDivSmallRange(a, d, mid + 1, hi, rem)
             low == BigDivSmallRange(a, d, lo, mid, high.rem)
         IN  [limbs |-> high.limbs \o low.limbs, rem |-> low.rem]

\* Whether b * q <= cur
Fits(cur, b, q) == q >= 0 /\ BigCmp(BigMulSmall(b, q), cur) <= 0

\* The quotient of the top limbs of cur, n + 1 and n, by the top limb of b
TopQuot(cur, b, n) == (LimbAt(cur, n + 1) * LIMB + LimbAt(cur, n)) \div b[n]

\* The largest q with b * q <= cur, for cur < b * LIMB and a b of two or more
\* limbs whose top limb is at least LIMB / 2: guess, the quotient of the top
\* limbs, is q or up to 2 above it (Knuth, TAOCP 4.3.1, algorithm D).
QuotLimbFrom(cur, b, guess) ==
    MaxOf({q \in {guess - 2, guess - 1, guess} : Fits(cur, b, q)})

QuotLimb(cur, b) ==
    QuotLimbFrom(cur, b, IF TopQuot(cur, b, Len(b)) < LIMB
                         THEN TopQuot(cur, b, Len(b)) ELSE LIMB - 1)

\* One limb q of the quotient and the remainder that cur leaves
BigDivLimb(cur, b, q) == [limbs |-> <<q>>, rem |-> BigSub(cur, BigMulSmall(b, q))]

RECURSIVE BigDivRange(_, _, _, _, _)
\* As BigDivSmallRange, for a divisor b as QuotLimb takes it; rem is a number.
BigDivRange(a, b, lo, hi, rem) ==
    IF lo = hi
    THEN BigDivLimb(BigTrim(<<a[lo]>> \o rem), b, QuotLimb(BigTrim(<<a[lo]>> \o rem), b))
    ELSE LET mid == (lo + hi) \div 2
             high == BigDivRange(a, b, mid + 1, hi, rem)
             low == BigDivRange(a, b, lo, mid, high.rem)
         IN  [limbs |-> high.limbs \o low.limbs, rem |-> low.rem]

\* The quotient from its limbs, and whether the remainder differs from zero
QuotRem(div, zero) ==
    [quot |-> BigTrim(Reverse(div.limbs)), nonzero_rem |-> div.rem # zero]

\* floor(a / b) for a > 0 and a b of two or more limbs, top limb >= LIMB / 2
BigDivLong(a, b) == QuotRem(BigDivRange(a, b, 1, Len(a), <<>>), <<>>)

\* floor(a / b) and whether a remainder is left, for b > 0
BigDiv(a, b) ==
    IF a = <<>> THEN [quot |-> <<>>, nonzero_rem |-> FALSE]
    ELSE IF Len(b) = 1 THEN QuotRem(BigDivSmallRange(a, b[1], 1, Len(a), 0), 0)
    ELSE BigDivLong(BigShl(a, LIMB_BITS - BitLen(b[Len(b)])),
                    BigShl(b, LIMB_BITS - BitLen(b[Len(b)])))

RECURSIVE BigPow10(_)
BigPow10(k) ==
    IF k = 0 THEN <<1>>
    ELSE IF k % 2 = 1 THEN BigMulSmall(BigPow10(k - 1), 10)
    ELSE LET root == BigPow10(k \div 2) IN BigMul(root, root)

(***************************************************************************)
(* f64: IEEE 754 binary64 with round-to-nearest, ties to even.  A finite   *)
(* value is (-1)^sign * mant * 2^exp with mant odd, or mant = <<>> and     *)
(* exp = 0 for the two zeros; the infinities and NaN are kinds of their    *)
(* own.  NaN is one value: its payload and sign are not told apart.        *)
(***************************************************************************)
MANTISSA_BITS == 53      \* f64::MANTISSA_DIGITS

MIN_EXP == -1074         \* the exponent of the smallest subnormal, 2^-1074

MAX_EXP == 1024          \* every finite f64 is below 2^1024

NaN == [kind |-> "nan", sign |-> 0, mant |-> <<>>, exp |-> 0]

Inf(sign) == [kind |-> "inf", sign |-> sign, mant |-> <<>>, exp |-> 0]

FZero(sign) == [kind |-> "num", sign |-> sign, mant |-> <<>>, exp |-> 0]

IsNaN(x) == x.kind = "nan"

IsInf(x) == x.kind = "inf"

IsZero(x) == x.kind = "num" /\ x.mant = <<>>

\* (-1)^sign * m * 2^e for an m > 0 with this many trailing zero bits
PackOdd(sign, m, e, zeros) ==
    [kind |-> "num", sign |-> sign, mant |-> BigShr(m, zeros), exp |-> e + zeros]

\* (-1)^sign * m * 2^e for an m of at most 53 bits; overflow gives an infinity
Pack(sign, m, e) ==
    IF m = <<>> THEN FZero(sign)
    ELSE IF BigBitLen(m) + e > MAX_EXP THEN Inf(sign)
    ELSE PackOdd(sign, m, e, BigTrailingZeros(m))

\* kept, or kept + 1 when the bits cut off below it are more than half of its
\* last place, or are half of it and kept is odd
RoundUp(kept, half, below) ==
    IF half /\ (below \/ BigBit(kept, 0) = 1) THEN BigAdd(kept, <<1>>) ELSE kept

\* m without its cut lowest bits, rounded; sticky tells of bits below m
RoundCut(m, cut, sticky) ==
    RoundUp(BigShr(m, cut), BigBit(m, cut - 1) = 1, sticky \/ ~BigLowZero(m, cut - 1))

\* The exponent of the last place of an f64 whose 53rd bit from the top is 2^q
Quantum(q) == IF q > MIN_EXP THEN q ELSE MIN_EXP

RoundTo(sign, m, e, sticky, quantum) ==
    IF quantum <= e THEN Pack(sign, m, e)
    ELSE Pack(sign, RoundCut(m, quantum - e, sticky), quantum)

\* The f64 nearest to (-1)^sign * (m + r) * 2^e, where 0 < r < 1 when sticky
\* and r = 0 otherwise; sticky only with an m of more than 53 bits.
Round(sign, m, e, sticky) ==
    RoundTo(sign, m, e, sticky, Quantum(e + BigBitLen(m) - MANTISSA_BITS))

\* n as f64, for an integer n of the model
FromInt(n) ==
    Round(IF n < 0 THEN 1 ELSE 0, BigFromInt(IF n < 0 THEN 0 - n ELSE n), 0, FALSE)

FNeg(x) == IF IsNaN(x) THEN NaN ELSE [x EXCEPT !.sign = 1 - @]

FAbs(x) == IF IsNaN(x) THEN NaN ELSE [x EXCEPT !.sign = 0]

\* (-1)^sx * mx + (-1)^sy * my, times 2^e; order is BigCmp(mx, my).  The sum
\* of two opposite numbers is +0.0.
AddOrdered(sx, mx, sy, my, e, order) ==
    Round(IF sx = sy \/ order > 0 THEN sx ELSE IF order < 0 THEN sy ELSE 0,
          IF sx = sy THEN BigAdd(mx, my)
          ELSE IF order > 0 THEN BigSub(mx, my) ELSE BigSub(my, mx),
          e, FALSE)

AddAligned(sx, mx, sy, my, e) == AddOrdered(sx, mx, sy, my, e, BigCmp(mx, my))

\* x + y for finite x and y, both brought to the exponent e
AddAt(x, y, e) ==
    AddAligned(x.sign, BigShl(x.mant, x.exp - e), y.sign, BigShl(y.mant, y.exp - e), e)

FAdd(x, y) ==
    IF IsNaN(x) \/ IsNaN(y) THEN NaN
    ELSE IF IsInf(x) THEN (IF IsInf(y) /\ y.sign # x.sign THEN NaN ELSE x)
    ELSE IF IsInf(y) THEN y
    ELSE AddAt(x, y, IF x.exp < y.exp THEN x.exp ELSE y.exp)

FSub(x, y) == FAdd(x, FNeg(y))

FMul(x, y) ==
    IF IsNaN(x) \/ IsNaN(y) THEN NaN
    ELSE IF IsInf(x) \/ IsInf(y)
    THEN (IF IsZero(x) \/ IsZero(y) THEN NaN ELSE Inf((x.sign + y.sign) % 2))
    ELSE Round((x.sign + y.sign) % 2, BigMul(x.mant, y.mant), x.exp + y.exp, FALSE)

\* The f64 nearest to the quotient div, times (-1)^sign * 2^e
RoundQuot(sign, div, e) == Round(sign, div.quot, e, div.nonzero_rem)

DivShifted(sign, n, en, d, ed, shift) ==
    RoundQuot(sign, BigDiv(BigShl(n, shift), d), en - ed - shift)

\* (-1)^sign * (n * 2^en) / (d * 2^ed) for n > 0 and d > 0: the quotient
\* is taken to at least 56 bits, the bits below it kept as sticky.
DivRound(sign, n, en, d, ed) ==
    DivShifted(sign, n, en, d, ed,
               IF 56 + BigBitLen(d) > BigBitLen(n)
               THEN 56 + BigBitLen(d) - BigBitLen(n) ELSE 0)

FDiv(x, y) ==
    IF IsNaN(x) \/ IsNaN(y) THEN NaN
    ELSE IF IsInf(x) THEN (IF IsInf(y) THEN NaN ELSE Inf((x.sign + y.sign) % 2))
    ELSE IF IsInf(y) THEN FZero((x.sign + y.sign) % 2)
    ELSE IF IsZero(y) THEN (IF IsZero(x) THEN NaN ELSE Inf((x.sign + y.sign) % 2))
    ELSE IF IsZero(x) THEN FZero((x.sign + y.sign) % 2)
    ELSE DivRound((x.sign + y.sign) % 2, x.mant, x.exp, y.mant, y.exp)

\* x == y, x < y and x <= y of f64: false with a NaN, and -0.0 == 0.0
FEq(x, y) ==
    /\ ~IsNaN(x) /\ ~IsNaN(y)
    /\ x = y \/ (IsZero(x) /\ IsZero(y))

\* x < 0.0
IsNegative(x) == ~IsNaN(x) /\ ~IsZero(x) /\ x.sign = 1

FLt(x, y) == ~IsNaN(x) /\ ~IsNaN(y) /\ x # y /\ IsNegative(FSub(x, y))

FLe(x, y) == FEq(x, y) \/ FLt(x, y)

(***************************************************************************)
(* Each specification below exercises one component; the variables of the  *)
(* other components stay at these idle values.                             *)
(***************************************************************************)
ReadIdle == rd_contents = <<>> /\ rd_data = NotRun /\ rd_pc = "idle"

TextIdle ==
    tx_weight = FromInt(1) /\ tx_text = <<>> /\ tx_raw = NotRun /\ tx_pc = "idle"

OptionsIdle == configured = NotRun /\ options = NotRun /\ opt_pc = "idle"

NgramsIdle ==
    /\ ng_config = <<>> /\ ng_raw = NotRun /\ ng_norm = NotRun
    /\ ng_out = NotRun /\ ng_pc = "idle"

LayoutIdle ==
    lay_given = <<>> /\ lay_layout = NotRun /\ lay_swaps = <<>> /\ lay_pc = "idle"

EvolveIdle ==
    /\ ev_options = NotRun /\ ev_ngrams = NotRun
    /\ ev_layout = NotRun /\ ev_new = NotRun
    /\ ev_calls = 0 /\ ev_pc = "idle"

DeriveIdle ==
    /\ dv_before = NotRun /\ dv_self = NotRun /\ dv_result = NotRun
    /\ dv_calls = <<>> /\ dv_pc = "idle"

(***************************************************************************)
(* str::split(" ") followed by the filter on empty parts                   *)
(***************************************************************************)
RECURSIVE SplitFrom(_, _, _, _)
\* Scans s from index i with the part cur under construction.
SplitFrom(s, sep, i, cur) ==
    IF i > Len(s) THEN <<cur>>
    ELSE IF s[i] = sep THEN <<cur>> \o SplitFrom(s, sep, i + 1, <<>>)
    ELSE SplitFrom(s, sep, i + 1, Append(cur, s[i]))

Split(s, sep) == SplitFrom(s, sep, 1, <<>>)

NonEmptyParts(s) == SelectSeq(Split(s, " "), LAMBDA part : part # <<>>)

(***************************************************************************)
(* str::parse::<f64>(): an optional sign, then "inf", "infinity" or "nan"  *)
(* in any case, or digits with an optional "." and an optional exponent;   *)
(* the value is the f64 nearest to the decimal number written.             *)
(***************************************************************************)
DigitValue ==
    [c \in {"0", "1", "2", "3", "4", "5", "6", "7", "8", "9"} |->
        CASE c = "0" -> 0 [] c = "1" -> 1 [] c = "2" -> 2 [] c = "3" -> 3
          [] c = "4" -> 4 [] c = "5" -> 5 [] c = "6" -> 6 [] c = "7" -> 7
          [] c = "8" -> 8 [] c = "9" -> 9]

IsDigits(s) == \A i \in DOMAIN s : s[i] \in DOMAIN DigitValue

\* The letters of "infinity", "nan" and the exponent mark, in lower case.
LowerCase(c) ==
    CASE c = "A" -> "a" [] c = "E" -> "e" [] c = "F" -> "f" [] c = "I" -> "i"
      [] c = "N" -> "n" [] c = "T" -> "t" [] c = "Y" -> "y" [] OTHER -> c

\* The least index of the set at, 0 when it is empty
FirstOf(at) == IF at = {} THEN 0 ELSE MinOf(at)

\* The index of the first c in s, 0 when there is none.
IndexOf(s, c) == FirstOf({i \in DOMAIN s : s[i] = c})

\* s up to its first c, and s after it: all of s and nothing without a c
Before(s, c) == IF IndexOf(s, c) = 0 THEN s ELSE SubSeq(s, 1, IndexOf(s, c) - 1)

After(s, c) == IF IndexOf(s, c) = 0 THEN <<>> ELSE SubSeq(s, IndexOf(s, c) + 1, Len(s))

RECURSIVE DecimalValue(_)
\* The number the digits of tok write
DecimalValue(tok) ==
    IF tok = <<>> THEN <<>>
    ELSE IF Len(tok) = 1 THEN BigFromInt(DigitValue[tok[1]])
    ELSE LET low == Len(tok) \div 2
         IN  BigAdd(BigMul(DecimalValue(SubSeq(tok, 1, Len(tok) - low)), BigPow10(low)),
                    DecimalValue(SubSeq(tok, Len(tok) - low + 1, Len(tok))))

EXPONENT_CAP == 100000   \* exponents beyond it all give 0 or an infinity

RECURSIVE ExponentValue(_, _)
\* The exponent the digits of tok write, saturating at EXPONENT_CAP.
ExponentValue(tok, acc) ==
    IF tok = <<>> \/ acc >= EXPONENT_CAP THEN acc
    ELSE ExponentValue(Tail(tok), 10 * acc + DigitValue[Head(tok)])

\* The significant digits: how many digits follow the leading zeros
Significant(digits) ==
    Len(digits) + 1
        - MinOf({Len(digits) + 1} \cup {i \in DOMAIN digits : digits[i] # "0"})

MAX_DECIMAL_EXP == 309   \* 10^309 is above every finite f64

MIN_DECIMAL_EXP == -324  \* 10^-324 is below half the smallest subnormal

\* The f64 nearest to (-1)^sign * n * 10^exp10 for an n below 10^(top - exp10)
DecimalRound(sign, n, exp10, top) ==
    IF n = <<>> THEN FZero(sign)
    ELSE IF top - 1 >= MAX_DECIMAL_EXP THEN Inf(sign)
    ELSE IF top <= MIN_DECIMAL_EXP THEN FZero(sign)
    ELSE DivRound(sign, BigMul(n, BigPow10(IF exp10 > 0 THEN exp10 ELSE 0)), 0,
                  BigPow10(IF exp10 < 0 THEN 0 - exp10 ELSE 0), 0)

\* The f64 nearest to (-1)^sign * digits * 10^exp10
DecimalToF64(sign, digits, exp10) ==
    DecimalRound(sign, DecimalValue(digits), exp10, exp10 + Significant(digits))

\* Whether tok starts with a sign, whether that is "-", and tok without it
IsSigned(tok) == tok # <<>> /\ tok[1] \in {"+", "-"}

IsMinus(tok) == tok # <<>> /\ tok[1] = "-"

Unsigned(tok) == IF IsSigned(tok) THEN Tail(tok) ELSE tok

\* The fields of a number, all of them digits: integral "." fraction "e"
\* exponent; has_exp tells whether there is an "e".
ParseFields(sign, integral, fraction, exp_digits, exp_minus, has_exp) ==
    IF /\ IsDigits(integral) /\ IsDigits(fraction)
       /\ Len(integral) + Len(fraction) > 0
       /\ IsDigits(exp_digits)
       /\ has_exp => exp_digits # <<>>
    THEN Ok(DecimalToF64(sign, integral \o fraction,
                         (IF exp_minus THEN 0 - ExponentValue(exp_digits, 0)
                          ELSE ExponentValue(exp_digits, 0)) - Len(fraction)))
    ELSE Panic

ParseParts(sign, number, exponent, has_exp) ==
    ParseFields(sign, Before(number, "."), After(number, "."),
                Unsigned(exponent), IsMinus(exponent), has_exp)

\* The body of a number after its sign, in lower case
ParseNumber(sign, body) ==
    ParseParts(sign, Before(body, "e"), After(body, "e"), IndexOf(body, "e") # 0)

ParseUnsigned(sign, lower) ==
    IF lower \in {<<"i", "n", "f">>, <<"i", "n", "f", "i", "n", "i", "t", "y">>}
    THEN Ok(Inf(sign))
    ELSE IF lower = <<"n", "a", "n">> THEN Ok(NaN)
    ELSE ParseNumber(sign, lower)

\* tok.parse::<f64>().unwrap(): Ok of the value, or Panic for the Err
ParseF64(tok) ==
    ParseUnsigned(IF IsMinus(tok) THEN 1 ELSE 0,
                  [i \in DOMAIN Unsigned(tok) |-> LowerCase(Unsigned(tok)[i])])

(***************************************************************************)
(* NGrams::read_pregenerated_file                                          *)
(***************************************************************************)
BOM == "BOM"   \* the character U+FEFF

\* line.replace("\u{feff}", "")
StripBOM(line) == SelectSeq(line, LAMBDA c : c # BOM)

\* let letters = ...: the last part, with the space that ended the line, or
\* the space alone when the line has one part
LineLetters(parts, trailing) ==
    IF trailing
    THEN IF Last(parts) = Head(parts) THEN <<" ">> ELSE Append(Last(parts), " ")
    ELSE Last(parts)

\* data.push((letters, number)) after number's parse::<f64>().unwrap()
PushEntry(data, letters, number) ==
    IF number = Panic THEN Panic ELSE Ok(Append(data, <<letters, number.val>>))

\* The loop body for a line of these parts; trailing: the line ends with " "
ReadParts(data, parts, trailing) ==
    IF parts = <<>> THEN Panic                           \* parts.last().unwrap()
    ELSE IF Len(parts) = 2 \/ (Len(parts) = 1 /\ trailing)
    THEN PushEntry(data, LineLetters(parts, trailing), ParseF64(Head(parts)))
    ELSE Ok(data)

\* One iteration of the loop over contents.lines(): Panic, or Ok of the data
\* vector after the line.
ReadLine(data, line) ==
    ReadParts(data, NonEmptyParts(StripBOM(line)), Last(line) = " ")

RECURSIVE ReadLines(_, _)
\* The loop over the lines left, from the Ok of the data so far or a Panic
ReadLines(data, lines) ==
    IF lines = <<>> \/ data = Panic THEN data
    ELSE ReadLines(ReadLine(data.val, Head(lines)), Tail(lines))

\* The file's lines are given; a missing file is the caller's Panic.
read_pregenerated_file(contents) == ReadLines(Ok(<<>>), contents)

(***************************************************************************)
(* Blueprint and Blueprint_Helpers.  A Blueprint is a sequence of rows, a  *)
(* row a sequence of keys, a key a sequence of layer strings.  A Pos is    *)
(* <<row, key, layer>>, counted from 0 as in the code.                     *)
(***************************************************************************)
\* self[row][key][layer], None when an index is out of bounds
CellAt(blueprint, row, key, layer) ==
    IF /\ row + 1 \in DOMAIN blueprint
       /\ key + 1 \in DOMAIN blueprint[row + 1]
       /\ layer + 1 \in DOMAIN blueprint[row + 1][key + 1]
    THEN Some(blueprint[row + 1][key + 1][layer + 1])
    ELSE None

\* The Blueprint after the call, or Panic when an index is out of bounds.
set_key(self, row, key, layer, new_key) ==
    IF CellAt(self, row, key, layer) = None THEN Panic
    ELSE Ok([self EXCEPT ![row + 1][key + 1][layer + 1] = new_key])

\* key.first().unwrap_or(&default_key)
FirstLayer(key) == IF key = <<>> THEN "not_set" ELSE key[1]

RECURSIVE KeyPosInRow_any_layer(_, _, _, _, _)
\* KeyPosInRow matching needle against every layer of a key, not the first.
KeyPosInRow_any_layer(row, needle, inr, ink, found) ==
    IF ink >= Len(row) THEN found
    ELSE KeyPosInRow_any_layer(row, needle, inr, ink + 1,
             IF \E layer \in DOMAIN row[ink + 1] : row[ink + 1][layer] = needle
             THEN <<inr, ink>> ELSE found)

RECURSIVE KeyPosInRow(_, _, _, _, _)
\* The inner loop of get_key_pos over the keys of row inr, from key ink on:
\* every match overwrites the indexes found so far.
KeyPosInRow(row, needle, inr, ink, found) ==
    IF ink >= Len(row) THEN found
    ELSE KeyPosInRow(row, needle, inr, ink + 1,
                     IF FirstLayer(row[ink + 1]) = needle THEN <<inr, ink>> ELSE found)

RECURSIVE KeyPosFrom(_, _, _, _)
KeyPosFrom(self, needle, inr, found) ==
    IF inr >= Len(self) THEN found
    ELSE KeyPosFrom(self, needle, inr + 1,
                    KeyPosInRow(self[inr + 1], needle, inr, 0, found))

\* (row_index, key_index) of the last key whose first layer is needle, and
\* (0, 0) when there is none.
get_key_pos(self, needle) == KeyPosFrom(self, needle, 0, <<0, 0>>)

\* self.set_key(pos.0, pos.1, 0, new_key)
SetFirstLayer(self, pos, new_key) == set_key(self, pos[1], pos[2], 0, new_key)

replace_key(self, new_key, old_key) ==
    SetFirstLayer(self, get_key_pos(self, old_key), new_key)

RECURSIVE ReplaceKeys(_, _, _, _)
\* The loop of get_randomized_variant over new_alphabet from index idx on:
\* blueprint.replace_key(old_alphabet[idx], new_alphabet[idx]); blueprint is
\* Ok of the Blueprint so far, or the Panic of a call before.
ReplaceKeys(blueprint, old_alphabet, new_alphabet, idx) ==
    IF idx >= Len(new_alphabet) \/ blueprint = Panic THEN blueprint
    ELSE ReplaceKeys(replace_key(blueprint.val, old_alphabet[idx + 1], new_alphabet[idx + 1]),
                     old_alphabet, new_alphabet, idx + 1)

(***************************************************************************)
(* Layout::single_key_position_cost and Layout::is_position_cost_lower     *)
(***************************************************************************)
COST_LAYER_ADDITION == <<0, 20, 9, 16, 29, 25>>

COST_PER_KEY ==
    << <<80, 70, 60, 50, 50, 60, 60, 50, 50, 50, 50, 60, 70, 80>>,
       <<24, 16, 10, 5, 12, 17, 20, 13, 5, 9, 11, 20, 36, 0>>,
       <<9, 5, 3, 3, 3, 6, 6, 3, 3, 3, 5, 9, 30, 6>>,
       <<20, 16, 19, 24, 20, 9, 30, 10, 8, 22, 22, 17, 19>>,
       <<0, 0, 0, 3, 7, 0, 0, 0>> >>

\* Whether pos indexes both tables; the indexing panics otherwise.
InCostTables(pos) ==
    /\ pos[1] + 1 \in DOMAIN COST_PER_KEY
    /\ pos[2] + 1 \in DOMAIN COST_PER_KEY[pos[1] + 1]
    /\ pos[3] + 1 \in DOMAIN COST_LAYER_ADDITION

\* For a pos inside the tables; the sums stay below 2^8.
single_key_position_cost(pos) ==
    COST_PER_KEY[pos[1] + 1][pos[2] + 1] + COST_LAYER_ADDITION[pos[3] + 1]

is_position_cost_lower(old_pos, new_pos) ==
    IF ~InCostTables(old_pos) \/ ~InCostTables(new_pos) THEN Panic
    ELSE LET old_cost == single_key_position_cost(old_pos)
                             + 2 * COST_LAYER_ADDITION[old_pos[3] + 1]
             new_cost == single_key_position_cost(new_pos)
                             + COST_LAYER_ADDITION[new_pos[3] + 1]
         IN  Ok(new_cost < old_cost)

(***************************************************************************)
(* Layout::from_blueprint                                                  *)
(***************************************************************************)
RIGHT_HAND_LOWEST_INDEXES == <<7, 6, 6, 7, 3>>

FINGER_POS_LIST ==
    << <<"Klein_L", << <<0, 0, 0>>, <<0, 1, 0>>, <<0, 2, 0>>, <<1, 0, 0>>, <<1, 1, 0>>,
                       <<2, 0, 0>>, <<2, 1, 0>>, <<3, 0, 0>>, <<3, 1, 0>>, <<3, 2, 0>>,
                       <<4, 0, 0>>, <<4, 1, 0>> >> >>,
       <<"Ring_L", << <<0, 3, 0>>, <<1, 2, 0>>, <<2, 2, 0>>, <<3, 3, 0>> >> >>,
       <<"Mittel_L", << <<0, 4, 0>>, <<1, 3, 0>>, <<2, 3, 0>>, <<3, 4, 0>> >> >>,
       <<"Zeige_L", << <<0, 5, 0>>, <<0, 6, 0>>, <<1, 4, 0>>, <<2, 4, 0>>, <<3, 5, 0>>,
                       <<1, 5, 0>>, <<2, 5, 0>>, <<3, 6, 0>> >> >>,
       <<"Daumen_L", << <<4, 2, 0>>, <<4, 3, 0>> >> >>,
       <<"Daumen_R", << <<4, 3, 0>>, <<4, 4, 0>> >> >>,
       <<"Zeige_R", << <<0, 7, 0>>, <<0, 8, 0>>, <<1, 6, 0>>, <<2, 6, 0>>, <<3, 7, 0>>,
                       <<1, 7, 0>>, <<2, 7, 0>>, <<3, 8, 0>> >> >>,
       <<"Mittel_R", << <<0, 9, 0>>, <<1, 8, 0>>, <<2, 8, 0>>, <<3, 9, 0>> >> >>,
       <<"Ring_R", << <<0, 10, 0>>, <<1, 9, 0>>, <<2, 9, 0>>, <<3, 10, 0>> >> >>,
       <<"Klein_R", << <<0, 11, 0>>, <<0, 12, 0>>, <<0, 13, 0>>, <<1, 10, 0>>,
                       <<2, 10, 0>>, <<3, 11, 0>>, <<1, 11, 0>>, <<2, 11, 0>>,
                       <<1, 12, 0>>, <<2, 12, 0>>, <<1, 13, 0>>, <<2, 13, 0>>,
                       <<3, 12, 0>>, <<4, 5, 0>>, <<4, 6, 0>>, <<4, 7, 0>> >> >> >>

\* HashMap::insert
Insert(map, key, value) ==
    [k \in DOMAIN map \cup {key} |-> IF k = key THEN value ELSE map[k]]

\* The (pos, finger) pairs of one entry of FINGER_POS_LIST.
PairsOf(entry) == [i \in 1..Len(entry[2]) |-> <<entry[2][i], entry[1]>>]

RECURSIVE FingerInserts(_)
\* The calls POS_TO_FINGER.insert(pos, finger) of the two loops, in order.
FingerInserts(list) ==
    IF list = <<>> THEN <<>>
    ELSE PairsOf(Head(list)) \o FingerInserts(Tail(list))

\* The index of the last insert at pos
LastInsert(inserts, pos) ==
    CHOOSE i \in DOMAIN inserts :
        /\ inserts[i][1] = pos
        /\ \A j \in DOMAIN inserts : inserts[j][1] = pos => j <= i

\* The map after the inserts: a later insert of the same position replaces
\* the earlier one.
MapOfInserts(inserts) ==
    [pos \in {inserts[i][1] : i \in DOMAIN inserts} |->
        inserts[LastInsert(inserts, pos)][2]]

POS_TO_FINGER == MapOfInserts(FingerInserts(FINGER_POS_LIST))

\* match map.get(key) { Some(value) => value, None => default }
GetOr(map, key, default) == IF key \in DOMAIN map THEN map[key] ELSE default

\* match POS_TO_FINGER.get(&(pos.0, pos.1, 0)) { Some(finger) => finger, None => "" }
FingerAt(pos) == GetOr(POS_TO_FINGER, <<pos[1], pos[2], 0>>, "")

NoDicts ==
    [char_finger_dict |-> [c \in {} |-> ""],
     char_pos_dict |-> [c \in {} |-> <<0, 0, 0>>],
     pos_is_left_dict |-> [p \in {} |-> TRUE],
     pos_char_dict |-> [p \in {} |-> ""]]

\* is_position_cost_lower(old_pos, new_pos) for a char seen before, false
\* for a new one
CostLower(dicts, pos, char) ==
    IF char \in DOMAIN dicts.char_finger_dict
    THEN is_position_cost_lower(dicts.char_pos_dict[char], pos)
    ELSE Ok(FALSE)

\* The four dicts after the inserts; fill_char_dicts: the two char dicts are
\* written
InsertCell(dicts, pos, char, lowest_right_hand_idx, fill_char_dicts) ==
    [char_finger_dict |->
         IF fill_char_dicts THEN Insert(dicts.char_finger_dict, char, FingerAt(pos))
         ELSE dicts.char_finger_dict,
     char_pos_dict |->
         IF fill_char_dicts THEN Insert(dicts.char_pos_dict, char, pos)
         ELSE dicts.char_pos_dict,
     pos_is_left_dict |->
         Insert(dicts.pos_is_left_dict, pos, lowest_right_hand_idx > pos[2]),
     pos_char_dict |-> Insert(dicts.pos_char_dict, pos, char)]

\* The inserts once is_position_cost_lower has returned lower
FillChecked(dicts, pos, char, lowest_right_hand_idx, lower) ==
    IF lower = Panic THEN Panic
    ELSE Ok(InsertCell(dicts, pos, char, lowest_right_hand_idx,
                       char \notin DOMAIN dicts.char_finger_dict \/ lower.val))

\* FillCell with the finger cache filled only the first time a character is
\* seen: a better position found later updates char_pos_dict alone.
FillCell_finger_once(dicts, pos, char, lowest_right_hand_idx) ==
    LET seen == char \in DOMAIN dicts.char_finger_dict
        lower == CostLower(dicts, pos, char)
    IN  IF lower = Panic THEN Panic
        ELSE Ok([InsertCell(dicts, pos, char, lowest_right_hand_idx, ~seen \/ lower.val)
                    EXCEPT !.char_finger_dict =
                        IF ~seen THEN Insert(dicts.char_finger_dict, char, FingerAt(pos))
                        ELSE dicts.char_finger_dict])

\* The body of the innermost loop, for the cell pos holding char: Panic, or
\* Ok of the four dicts after it.
FillCell(dicts, pos, char, lowest_right_hand_idx) ==
    FillChecked(dicts, pos, char, lowest_right_hand_idx, CostLower(dicts, pos, char))

RECURSIVE FillLayers(_, _, _, _, _, _)
\* for (layer_idx, char) in key.iter().enumerate(), from layer_idx on; dicts
\* is Ok of the four dicts so far, or the Panic of a cell before.
FillLayers(dicts, key, row_idx, key_idx, layer_idx, lowest_right_hand_idx) ==
    IF layer_idx >= Len(key) \/ dicts = Panic THEN dicts
    ELSE FillLayers(FillCell(dicts.val, <<row_idx, key_idx, layer_idx>>,
                             key[layer_idx + 1], lowest_right_hand_idx),
                    key, row_idx, key_idx, layer_idx + 1, lowest_right_hand_idx)

RECURSIVE FillKeys(_, _, _, _, _)
\* for (key_idx, key) in row.iter().enumerate(), from key_idx on
FillKeys(dicts, row, row_idx, key_idx, lowest_right_hand_idx) ==
    IF key_idx >= Len(row) \/ dicts = Panic THEN dicts
    ELSE FillKeys(FillLayers(dicts, row[key_idx + 1], row_idx, key_idx, 0,
                             lowest_right_hand_idx),
                  row, row_idx, key_idx + 1, lowest_right_hand_idx)

RECURSIVE FillRows(_, _, _)
\* for (row_idx, row) in blueprint.iter().enumerate(), from row_idx on
FillRows(dicts, blueprint, row_idx) ==
    IF row_idx >= Len(blueprint) \/ dicts = Panic THEN dicts
    ELSE IF row_idx + 1 \notin DOMAIN RIGHT_HAND_LOWEST_INDEXES THEN Panic
    ELSE FillRows(FillKeys(dicts, blueprint[row_idx + 1], row_idx, 0,
                           RIGHT_HAND_LOWEST_INDEXES[row_idx + 1]),
                  blueprint, row_idx + 1)

\* Layout { blueprint, char_finger_dict, ... } of the dicts filled
LayoutOf(blueprint, dicts) ==
    IF dicts = Panic THEN Panic
    ELSE Ok([blueprint |-> blueprint,
             char_finger_dict |-> dicts.val.char_finger_dict,
             char_pos_dict |-> dicts.val.char_pos_dict,
             pos_is_left_dict |-> dicts.val.pos_is_left_dict,
             pos_char_dict |-> dicts.val.pos_char_dict])

\* The Layout built, or Panic.
from_blueprint(blueprint) == LayoutOf(blueprint, FillRows(Ok(NoDicts), blueprint, 0))

(***************************************************************************)
(* Layout::merge_layout_string, Layout::from_args and                      *)
(* Layout::get_randomized_variant.  A method of a Layout yields            *)
(* [self |-> the Layout it was called on, as the call leaves it,           *)
(*  result |-> the Layout returned], or Panic.                             *)
(***************************************************************************)
\* layout_str.replace(" ", "")
RemoveSpaces(layout_str) == SelectSeq(layout_str, LAMBDA c : c # " ")

RECURSIVE MergeChars(_, _, _, _)
\* for (char_idx, char) in chars.enumerate(), from char_idx on; blueprint is
\* Ok of the Blueprint so far, or the Panic of a set_key before.
MergeChars(blueprint, line, line_idx, char_idx) ==
    IF char_idx >= Len(line) \/ blueprint = Panic THEN blueprint
    ELSE MergeChars(set_key(blueprint.val, line_idx + 1, char_idx + 1, 0, line[char_idx + 1]),
                    line, line_idx, char_idx + 1)

RECURSIVE MergeLines(_, _, _)
\* for (line_idx, line) in lines.enumerate(), from line_idx on
MergeLines(blueprint, lines, line_idx) ==
    IF line_idx >= Len(lines) \/ blueprint = Panic THEN blueprint
    ELSE MergeLines(MergeChars(blueprint, lines[line_idx + 1], line_idx, 0),
                    lines, line_idx + 1)

\* Layout::from_blueprint(&blueprint) on the Blueprint the loop leaves
BuildFrom(blueprint) ==
    IF blueprint = Panic THEN Panic ELSE from_blueprint(blueprint.val)

\* The outcome of a method of self that returns the Layout built as result
Returning(self, result) ==
    IF result = Panic THEN Panic ELSE Ok([self |-> self, result |-> result.val])

\* merge_layout_string writing into the Layout it is called on instead of
\* into a clone of its blueprint.
merge_layout_string_in_place(self, layout_str) ==
    LET result == BuildFrom(MergeLines(Ok(self.blueprint),
                                       Split(RemoveSpaces(layout_str), "\n"), 0))
    IN  IF result = Panic THEN Panic
        ELSE Ok([self |-> result.val, result |-> result.val])

merge_layout_string(self, layout_str) ==
    Returning(self, BuildFrom(MergeLines(Ok(self.blueprint),
                                         Split(RemoveSpaces(layout_str), "\n"), 0)))

\* The Blueprint deserialised from the base layout's JSON, built.
get_base_layout(base_layout) == from_blueprint(base_layout)

\* What from_args returns once merge_layout_string has returned merged:
\* that value is dropped and the Layout it was called on is returned.
DropMerged(merged) == IF merged = Panic THEN Panic ELSE Ok(merged.val.self)

\* The rest of from_args once get_base_layout has returned layout.
MergeIntoBase(layout, opts) ==
    IF layout = Panic THEN Panic
    ELSE DropMerged(merge_layout_string(layout.val, opts.starting_layout))

\* The Layout returned, or Panic.
from_args(opts) == MergeIntoBase(get_base_layout(opts.base_layout), opts)

\* new_alphabet is the shuffle's outcome; steps is only logged.
get_randomized_variant(self, alphabet, steps, new_alphabet) ==
    Returning(self, BuildFrom(ReplaceKeys(Ok(self.blueprint), alphabet, new_alphabet, 0)))

(***************************************************************************)
(* Specification SpecRead: read_pregenerated_file on bounded files         *)
(***************************************************************************)
MaxLines == 2

\* The lines a frequency file is made of in this model.
FileLines ==
    { <<"1", " ", "a">>,                 \* count and ngram
      <<"1", "2", " ", "a", "b">>,       \* two-digit count, bigram
      <<"0", " ", "b">>,                 \* a zero count
      <<"1", " ", "a", " ", "b">>,       \* three fields
      <<"a">>,                           \* one field, no trailing space
      <<"x", " ", "a">>,                 \* the count does not parse
      <<>>,                              \* an empty line
      <<"3", " ", " ">>,                 \* the ngram is the space character
      <<"2", " ", "a", " ">>,            \* an ngram ending in a space
      <<"-", ".", "5", " ", "a">>,       \* a count with a sign and a fraction
      <<BOM, "1", " ", "a">> }           \* a byte-order mark before the count

InitRead ==
    /\ rd_contents \in SeqsUpTo(FileLines, MaxLines)
    /\ rd_data = NotRun
    /\ rd_pc = "start"
    /\ TextIdle /\ OptionsIdle /\ NgramsIdle /\ LayoutIdle /\ EvolveIdle /\ DeriveIdle

ReadPregeneratedFile ==
    /\ rd_pc = "start"
    /\ rd_data' = read_pregenerated_file(rd_contents)
    /\ rd_pc' = "done"
    /\ UNCHANGED <<rd_contents, tx_vars, opt_vars, ng_vars, lay_vars, ev_vars, dv_vars>>

NextRead == ReadPregeneratedFile

SpecRead == InitRead /\ [][NextRead]_vars

\* C4: reading a frequency file never silently drops a line: whenever the
\* read returns (no line was fatal), the returned entry list has exactly one
\* entry per line of the file.
C4_NoSilentDrop ==
    (rd_pc = "done" /\ rd_data # Panic) => Len(rd_data.val) = Len(rd_contents)

(***************************************************************************)
(* NGrams::parse_text_ngrams                                               *)
(***************************************************************************)
UpperCase ==
    {"A", "B", "C", "D", "E", "F", "G", "H", "I", "J", "K", "L", "M",
     "N", "O", "P", "Q", "R", "S", "T", "U", "V", "W", "X", "Y", "Z"}

Shift == "SHIFT"   \* the character U+21E7 that replaces an upper-case letter

\* UPPER_CASE_REGEX.replace_all(&line, SHIFT), one character at a time.
ReplaceUpper(c) == IF c \in UpperCase THEN Shift ELSE c

EmptyMap == [k \in {} |-> 0]

\* *map.entry(key).or_insert(0.0) += 1.0
Increment(map, key) ==
    IF key \in DOMAIN map THEN [map EXCEPT ![key] = @ + 1]
    ELSE [k \in DOMAIN map \cup {key} |-> IF k = key THEN 1 ELSE map[k]]

\* The body of "for letter in chars": st holds the three HashMaps and the
\* two look-behind characters.
TextStep(st, c) ==
    LET letter == ReplaceUpper(c)
        letters == IF letter # Shift THEN Increment(st.letters, <<letter>>)
                   ELSE st.letters
    IN  IF st.bigram_char = None
        THEN [st EXCEPT !.letters = letters, !.bigram_char = Some(letter)]
        ELSE LET bigram_char == st.bigram_char.val
                 bigrams == Increment(st.bigrams, <<letter, bigram_char>>)
                 trigrams ==
                     IF st.trigram_char = None THEN st.trigrams
                     ELSE Increment(st.trigrams,
                                    <<letter, bigram_char, st.trigram_char.val>>)
             IN  [letters |-> letters, bigrams |-> bigrams, trigrams |-> trigrams,
                  bigram_char |-> Some(letter), trigram_char |-> Some(bigram_char)]

RECURSIVE TextScan(_, _)
\* The while loop over the lines and the for loop over their characters: the
\* look-behind characters live across lines, so the file is one run of chars.
TextScan(st, text) ==
    IF text = <<>> THEN st ELSE TextScan(TextStep(st, Head(text)), Tail(text))

TextScanInit ==
    [letters |-> EmptyMap, bigrams |-> EmptyMap, trigrams |-> EmptyMap,
     bigram_char |-> None, trigram_char |-> None]

RECURSIVE Enumerations(_)
\* Every order in which a HashMap may iterate over the key set S.
Enumerations(S) ==
    IF S = {} THEN {<<>>}
    ELSE UNION {{<<k>> \o rest : rest \in Enumerations(S \ {k})} : k \in S}

\* usize::saturating_sub
SaturatingSub(a, b) == IF a >= b THEN a - b ELSE 0

\* Vec::truncate
Truncate(s, n) == IF Len(s) <= n THEN s ELSE SubSeq(s, 1, n)

\* The (key, count) vector pushed from map in iteration order keys.
EntriesOf(map, keys) == [i \in 1..Len(keys) |-> <<keys[i], FromInt(map[keys[i]])>>]

\* letters_vec after sort_by(count) and reverse(): counts never increase; the
\* order among equal counts is the reversed iteration order, any order at all.
LettersVecs(map) ==
    {EntriesOf(map, keys) : keys \in
        {e \in Enumerations(DOMAIN map) :
            \A i \in 1..(Len(e) - 1) : map[e[i]] >= map[e[i + 1]]}}

\* bigrams_vec: sorted while still empty, filled in iteration order, then
\* truncated to bigrams.len() - 2.
BigramsVecs(map) ==
    {Truncate(EntriesOf(map, keys), SaturatingSub(Cardinality(DOMAIN map), 2)) :
        keys \in Enumerations(DOMAIN map)}

\* trigrams_vec: filled in iteration order, then truncated to one less than
\* the length of trigrams_drained, itself one less than trigrams.len().
TrigramsVecs(map) ==
    LET trigrams_drained_len == SaturatingSub(Cardinality(DOMAIN map), 1)
        trigrams_final_length == SaturatingSub(trigrams_drained_len, 1)
    IN  {Truncate(EntriesOf(map, keys), trigrams_final_length) :
            keys \in Enumerations(DOMAIN map)}

\* Every RawNGrams the call may return for a file holding text.
parse_text_ngrams(weight, text) ==
    LET st == TextScan(TextScanInit, text)
    IN  {[weight |-> weight, letters |-> l, bigrams |-> b, trigrams |-> t] :
            l \in LettersVecs(st.letters),
            b \in BigramsVecs(st.bigrams),
            t \in TrigramsVecs(st.trigrams)}

(***************************************************************************)
(* NGrams::normalize_ngrams and NGrams::collect_normalized_ngrams          *)
(***************************************************************************)
Zero == FZero(0)     \* the literal 0.0

RECURSIVE FoldNgrams(_, _)
\* table.iter().fold(sum, Self::fold_ngrams)
FoldNgrams(sum, table) ==
    IF table = <<>> THEN sum
    ELSE FoldNgrams(FAdd(sum, Head(table)[2]), Tail(table))

\* .map(|(letter, number)| (letter.clone(), *number as f64 / total as f64))
DivideAll(table, total) ==
    [i \in 1..Len(table) |-> <<table[i][1], FDiv(table[i][2], total)>>]

\* The scores of ngrams for a total
DivideBy(ngrams, total) ==
    [weight |-> ngrams.weight,
     letters |-> DivideAll(ngrams.letters, total),
     bigrams |-> DivideAll(ngrams.bigrams, total),
     trigrams |-> DivideAll(ngrams.trigrams, total)]

\* normalize_ngrams with the trigram counts left out of the total.
normalize_ngrams_total_without_trigrams(ngrams) ==
    DivideBy(ngrams, FAdd(FoldNgrams(Zero, ngrams.letters),
                          FoldNgrams(Zero, ngrams.bigrams)))

\* total = sum_letters + sum_bigrams + sum_trigrams
normalize_ngrams(ngrams) ==
    DivideBy(ngrams, FAdd(FAdd(FoldNgrams(Zero, ngrams.letters),
                               FoldNgrams(Zero, ngrams.bigrams)),
                          FoldNgrams(Zero, ngrams.trigrams)))

\* AddTo with "=" in place of "+=": a later source overwrites an earlier one.
AddTo_overwriting(map, key, value) ==
    [k \in DOMAIN map \cup {key} |-> IF k = key THEN value ELSE map[k]]

\* *map.entry(key).or_insert(0.0) += value
AddTo(map, key, value) ==
    IF key \in DOMAIN map THEN [map EXCEPT ![key] = FAdd(@, value)]
    ELSE [k \in DOMAIN map \cup {key} |->
             IF k = key THEN FAdd(Zero, value) ELSE map[k]]

RECURSIVE Accumulate(_, _, _)
\* for (ngram, num) in table { *map.entry(ngram).or_insert(0.0) += num * weight }
Accumulate(map, table, weight) ==
    IF table = <<>> THEN map
    ELSE Accumulate(AddTo(map, Head(table)[1], FMul(Head(table)[2], weight)),
                    Tail(table), weight)

\* One pass of the loop "for ngram in normalized"
CollectOne(maps, ngram) ==
    [letter_weight |-> Accumulate(maps.letter_weight, ngram.letters, ngram.weight),
     bigram_weight |-> Accumulate(maps.bigram_weight, ngram.bigrams, ngram.weight),
     trigram_weight |-> Accumulate(maps.trigram_weight, ngram.trigrams, ngram.weight)]

RECURSIVE CollectMaps(_, _)
\* The loop "for ngram in normalized" over the three HashMaps.
CollectMaps(maps, normalized) ==
    IF normalized = <<>> THEN maps
    ELSE CollectMaps(CollectOne(maps, Head(normalized)), Tail(normalized))

NoMaps ==
    [letter_weight |-> EmptyMap, bigram_weight |-> EmptyMap, trigram_weight |-> EmptyMap]

\* The (key, score) vector pushed from map in iteration order keys.
ScoresOf(map, keys) == [i \in 1..Len(keys) |-> <<keys[i], map[keys[i]]>>]

\* Every NGrams the three HashMaps may give: each vector is filled by
\* into_iter() on a HashMap, in any order.
VecsOf(maps) ==
    {[letters |-> ScoresOf(maps.letter_weight, kl),
      bigrams |-> ScoresOf(maps.bigram_weight, kb),
      trigrams |-> ScoresOf(maps.trigram_weight, kt)] :
        kl \in Enumerations(DOMAIN maps.letter_weight),
        kb \in Enumerations(DOMAIN maps.bigram_weight),
        kt \in Enumerations(DOMAIN maps.trigram_weight)}

\* Every NGrams the call may return.
collect_normalized_ngrams(normalized) == VecsOf(CollectMaps(NoMaps, normalized))

(***************************************************************************)
(* The files on disk.  A path is a String; a file is the String that       *)
(* fs::read_to_string returns, "\n" ending each line.                      *)
(***************************************************************************)
NL == "\n"

CR == "\r"

\* The datatype of a source in work_ngrams_config_line
TextKind == <<"t", "e", "x", "t">>

PregeneratedKind == <<"p", "r", "e", "g", "e", "n", "e", "r", "a", "t", "e", "d">>

Files ==
    [path \in {<<"t">>, <<"e">>, <<"l">>, <<"p">>, <<"q">>, <<"z">>, <<"n">>, <<"i">>,
               <<"g">>, <<"w">>, <<"s">>} |->
        CASE path = <<"t">> -> <<"a", "a", "b", "a">>            \* a text
          [] path = <<"e">> -> <<>>                              \* an empty file
          [] path = <<"l">> -> <<"2", " ", "a", NL, "1", " ", "b", NL>>
          [] path = <<"p">> -> <<"1", " ", "a", "b", CR, NL>>    \* a CRLF line
          [] path = <<"q">> -> <<"1", " ", "a", "b", "a", NL>>
          [] path = <<"z">> -> <<"0", " ", "a", NL>>             \* a zero count
          [] path = <<"n">> -> <<"1", ".", "5", " ", "a", NL,    \* counts that
                                 "-", "1", ".", "5", " ", "b">>  \* cancel out
          [] path = <<"i">> -> <<"i", "n", "f", " ", "a", NL>>   \* an infinite count
          \* ngrams config files: a source, a weight in words, a line cut short
          [] path = <<"g">> -> <<"#", "c", NL, "2", " ">> \o PregeneratedKind
                                   \o <<" ", "l", ";", "p", ";", "q", NL>>
          [] path = <<"w">> -> <<"o", "n", "e", " ">> \o TextKind \o <<" ", "t">>
          [] path = <<"s">> -> <<"1", " ">> \o TextKind]

\* fs::read_to_string(path) / File::open(path), before the unwrap
ReadToString(path) == IF path \in DOMAIN Files THEN Ok(Files[path]) ELSE Panic

\* A line without the "\r" that stood before its "\n"
StripCR(line) ==
    IF line # <<>> /\ Last(line) = CR THEN SubSeq(line, 1, Len(line) - 1) ELSE line

\* str::lines: the pieces that a "\n" ends, each without its "\n" or "\r\n",
\* and the piece after the last "\n" as it is, unless it is empty.
Lines(contents) ==
    LET pieces == Split(contents, NL)
    IN  [i \in 1..(Len(pieces) - 1) |-> StripCR(pieces[i])]
            \o (IF Last(pieces) = <<>> THEN <<>> ELSE <<Last(pieces)>>)

(***************************************************************************)
(* NGrams::work_ngrams_config_line and NGrams::parse_pregenerated_ngrams   *)
(***************************************************************************)
\* read_pregenerated_file on the outcome of File::open and read_to_string
ReadContents(contents) ==
    IF contents = Panic THEN Panic ELSE read_pregenerated_file(Lines(contents.val))

\* read_pregenerated_file(path.to_string()), the file read from disk
ReadPregeneratedPath(path) == ReadContents(ReadToString(path))

\* RawNGrams { weight, letters, bigrams, trigrams } of the three files read
RawNGramsOf(weight, letters, bigrams, trigrams) ==
    IF letters = Panic \/ bigrams = Panic \/ trigrams = Panic THEN Panic
    ELSE Ok([weight |-> weight, letters |-> letters.val,
             bigrams |-> bigrams.val, trigrams |-> trigrams.val])

parse_pregenerated_ngrams(weight, letters_path, bigrams_path, trigrams_path) ==
    RawNGramsOf(weight, ReadPregeneratedPath(letters_path),
                ReadPregeneratedPath(bigrams_path),
                ReadPregeneratedPath(trigrams_path))

\* Some(parse_text_ngrams(weight, datapath)), contents the file at datapath
TextSource(weight, contents) ==
    IF contents = Panic THEN {Panic}
    ELSE {Some(raw) : raw \in parse_text_ngrams(weight, contents.val)}

\* Some(raw), or the Panic of the call that gives raw
SomeOf(raw) == IF raw = Panic THEN {Panic} ELSE {Some(raw.val)}

\* Some(parse_pregenerated_ngrams(weight, paths[0], paths[1], paths[2]))
PregeneratedSource(weight, paths) ==
    IF Len(paths) < 3 THEN {Panic}                       \* paths[2]
    ELSE SomeOf(parse_pregenerated_ngrams(weight, paths[1], paths[2], paths[3]))

\* WorkLine with every kind but pregenerated read as text.
WorkLine_else_text(weight, datatype, datapath) ==
    IF weight = Panic THEN {Panic}
    ELSE IF datatype # PregeneratedKind
    THEN TextSource(weight.val, ReadToString(datapath))
    ELSE PregeneratedSource(weight.val, Split(datapath, ";"))

\* The branches of work_ngrams_config_line on datatype, after the unwrap of
\* the weight parsed.
WorkLine(weight, datatype, datapath) ==
    IF weight = Panic THEN {Panic}                       \* parse::<f64>().unwrap()
    ELSE IF datatype = TextKind
    THEN TextSource(weight.val, ReadToString(datapath))
    ELSE IF datatype = PregeneratedKind
    THEN PregeneratedSource(weight.val, Split(datapath, ";"))
    ELSE {None}

\* Every value the call may return: Panic, None, or Some(RawNGrams).
work_ngrams_config_line(line) ==
    IF Len(NonEmptyParts(line)) < 3 THEN {Panic}         \* parts[0], parts[1], parts[2]
    ELSE WorkLine(ParseF64(NonEmptyParts(line)[1]), NonEmptyParts(line)[2],
                  NonEmptyParts(line)[3])

(***************************************************************************)
(* NGrams::from_config                                                     *)
(***************************************************************************)
\* .filter(|line| !line.starts_with("#"))
RemoveComments(config) ==
    SelectSeq(config, LAMBDA line : ~(line # <<>> /\ Head(line) = "#"))

\* raw_vec with a line's value before the values of the lines after it
Collected(raws, rest) ==
    IF Panic \in raws \/ Panic \in rest THEN {Panic}
    ELSE {Ok(<<raw>> \o r.val) : raw \in raws, r \in rest}

RECURSIVE RawVecs(_)
\* Every raw_vec the parallel map may collect (in line order), or Panic when
\* a line panics.
RawVecs(lines) ==
    IF lines = <<>> THEN {Ok(<<>>)}
    ELSE Collected(work_ngrams_config_line(Head(lines)), RawVecs(Tail(lines)))

\* .map(|raw| normalize_ngrams(raw.unwrap()))
NormalizeAll(some) == [i \in 1..Len(some) |-> normalize_ngrams(some[i].val)]

\* .filter(|raw| raw.is_some()).map(|raw| normalize_ngrams(raw.unwrap()))
Normalized(raw_vec) == NormalizeAll(SelectSeq(raw_vec, LAMBDA raw : raw # None))

\* The runs that collect raw_vec and normalize it to normalized
RunsFrom(raw_vec, normalized) ==
    {[raw_vec |-> raw_vec, normalized |-> Ok(normalized), result |-> Ok(corpus)] :
        corpus \in collect_normalized_ngrams(normalized)}

\* The runs for the raw_vecs that may be collected
RunsOf(raw_vecs) ==
    IF Panic \in raw_vecs
    THEN {[raw_vec |-> Panic, normalized |-> NotRun, result |-> Panic]}
    ELSE UNION {RunsFrom(raw_vec, Normalized(raw_vec.val)) : raw_vec \in raw_vecs}

\* Every way the call may run: the raw_vec collected, the normalized vector
\* and the value returned (from_config has no Err path of its own).
FromConfigRuns(config) == RunsOf(RawVecs(RemoveComments(config)))

from_config(config) == {run.result : run \in FromConfigRuns(config)}

\* from_config on the outcome of fs::read_to_string(path): the expect panics
\* for a file that cannot be read, config.lines() are the lines of the others
FromConfigContents(config) ==
    IF config = Panic THEN {Panic} ELSE from_config(Lines(config.val))

\* NGrams::from_config(path), the config file read from disk
FromConfigPath(path) == FromConfigContents(ReadToString(path))

(***************************************************************************)
(* Specification SpecText: parse_text_ngrams on bounded texts              *)
(***************************************************************************)
MaxTextLen == 4

TextChars == {"a", "b", "A"}

Weights == {FromInt(1), FromInt(2)}

InitText ==
    /\ tx_weight \in Weights
    /\ tx_text \in SeqsUpTo(TextChars, MaxTextLen)
    /\ tx_raw = NotRun
    /\ tx_pc = "start"
    /\ ReadIdle /\ OptionsIdle /\ NgramsIdle /\ LayoutIdle /\ EvolveIdle /\ DeriveIdle

ParseTextNgrams ==
    /\ tx_pc = "start"
    /\ tx_raw' \in {Ok(raw) : raw \in parse_text_ngrams(tx_weight, tx_text)}
    /\ tx_pc' = "done"
    /\ UNCHANGED <<tx_weight, tx_text, rd_vars, opt_vars, ng_vars, lay_vars, ev_vars, dv_vars>>

NextText == ParseTextNgrams

SpecText == InitText /\ [][NextText]_vars

\* The text as typed, an upper-case letter standing for the shift marker.
Folded(text) == [i \in 1..Len(text) |-> ReplaceUpper(text[i])]

\* The number of the positions among 1..last at which ngram starts in text.
Occurrences(text, ngram, last) ==
    Cardinality({i \in 1..last : SubSeq(text, i, i + Len(ngram) - 1) = ngram})

\* Whether table holds ngram with exactly this count, and holds it once.
HoldsCount(table, ngram, count) ==
    /\ \E i \in 1..Len(table) : table[i] = <<ngram, FromInt(count)>>
    /\ Cardinality({i \in 1..Len(table) : table[i][1] = ngram}) = 1

\* C10: ingesting a text discards only the final pair and the final triple:
\* every adjacent pair and triple that starts before the final one is in the
\* returned table, counted as often as it occurs before the final one.
C10_OnlyFinalDiscarded ==
    tx_pc = "done" =>
        LET text == Folded(tx_text)
            n == Len(text)
        IN  /\ \A i \in 1..(n - 2) :
                   LET pair == SubSeq(text, i, i + 1)
                   IN  HoldsCount(tx_raw.val.bigrams, pair,
                                  Occurrences(text, pair, n - 2))
            /\ \A i \in 1..(n - 3) :
                   LET triple == SubSeq(text, i, i + 2)
                   IN  HoldsCount(tx_raw.val.trigrams, triple,
                                  Occurrences(text, triple, n - 3))

(***************************************************************************)
(* KloOptions::post_parse_checks                                           *)
(***************************************************************************)
\* The width of the u128 fields of KloOptions
U128_BITS == 128

\* u128::MAX.  A u128 is held as its limbs, like the significand of an f64.
U128_MAX == BigSub(BigShl(<<1>>, U128_BITS), <<1>>)

\* n modulo 2^128
WrapU128(n) == BigSub(n, BigShl(BigShr(n, U128_BITS), U128_BITS))

\* The outcomes of a u128 addition or multiplication whose exact result is
\* n: past u128::MAX the build with overflow checks panics and the build
\* without them wraps.
CheckedU128(n) ==
    IF BigBitLen(n) <= U128_BITS THEN {Ok(n)} ELSE {Panic, Ok(WrapU128(n))}

\* "n as f64" for a u128 n: the nearest f64
U128AsF64(n) == Round(0, n, 0, FALSE)

\* std::cmp::max
Max(a, b) == IF BigCmp(a, b) >= 0 THEN a ELSE b

\* "x as u128": the fraction is cut off; a NaN or a negative x gives 0, an
\* infinity or an x of 2^128 or more gives u128::MAX.
AsU128(x) ==
    IF IsNaN(x) \/ x.sign = 1 \/ IsZero(x) THEN <<>>
    ELSE IF IsInf(x) THEN U128_MAX
    ELSE IF x.exp < 0 THEN BigShr(x.mant, 0 - x.exp)
    ELSE IF x.exp + BigBitLen(x.mant) > U128_BITS THEN U128_MAX
    ELSE BigShl(x.mant, x.exp)

\* The literal 0.5
Half == ParseF64(<<"0", ".", "5">>).val

\* half_steps / (1 + self.anneal) as f64
CalculatedAnneals(self, divisor) ==
    FDiv(FMul(Half, U128AsF64(self.steps)), U128AsF64(divisor))

\* self.anneal_step = max(1, calculated_anneals as u128)
SetAnnealStep(self, calculated_anneals) ==
    [self EXCEPT !.anneal_step = Max(<<1>>, AsU128(calculated_anneals))]

\* The body of the if, for an outcome of 1 + self.anneal
ReduceAnnealStep(self, divisor) ==
    IF divisor = Panic THEN Panic
    ELSE Ok(SetAnnealStep(self, CalculatedAnneals(self, divisor.val)))

\* The if, for an outcome of self.anneal * self.anneal_step
CheckAnneal(self, product) ==
    IF product = Panic THEN {Panic}
    ELSE IF BigCmp(product.val, self.steps) > 0
    THEN {ReduceAnnealStep(self, divisor) :
              divisor \in CheckedU128(BigAdd(<<1>>, self.anneal))}
    ELSE {Ok(self)}

\* Every outcome of the call: the options it leaves, or Panic.
post_parse_checks(self) ==
    UNION {CheckAnneal(self, product) :
               product \in CheckedU128(BigMul(self.anneal, self.anneal_step))}

(***************************************************************************)
(* Specification SpecOptions: post_parse_checks on bounded options         *)
(***************************************************************************)
MaxSteps == 10

MaxAnneal == 3

MaxAnnealStep == 8

\* The values of a field: 0..max, and the largest value the field holds
U128UpTo(max) == {BigFromInt(n) : n \in 0..max} \cup {U128_MAX}

InitOptions ==
    /\ configured \in [steps : U128UpTo(MaxSteps), anneal : U128UpTo(MaxAnneal),
                       anneal_step : U128UpTo(MaxAnnealStep)]
    /\ options = NotRun
    /\ opt_pc = "start"
    /\ ReadIdle /\ TextIdle /\ NgramsIdle /\ LayoutIdle /\ EvolveIdle /\ DeriveIdle

PostParseChecks ==
    /\ opt_pc = "start"
    /\ options' \in post_parse_checks(configured)
    /\ opt_pc' = "done"
    /\ UNCHANGED <<configured, rd_vars, tx_vars, ng_vars, lay_vars, ev_vars, dv_vars>>

NextOptions == PostParseChecks

SpecOptions == InitOptions /\ [][NextOptions]_vars

\* 2 * anneal * anneal_step, the steps allotted to annealing twice (as a
\* number, not cut to u128)
TwiceAnnealing(opts) == BigMul(<<2>>, BigMul(opts.anneal, opts.anneal_step))

\* C9: after post_parse_checks the steps allotted to annealing, anneal *
\* anneal_step, are at most half of steps (unless anneal_step is down at its
\* floor of 1); and whenever the configured anneal * anneal_step exceeds that
\* half, anneal_step was reduced, to no less than 1.
C9_AnnealAtMostHalf ==
    (opt_pc = "done" /\ options # Panic) =>
        /\ \/ BigCmp(TwiceAnnealing(options.val), options.val.steps) <= 0
           \/ options.val.anneal_step = <<1>>
        /\ BigCmp(TwiceAnnealing(configured), configured.steps) > 0 =>
               /\ BigCmp(options.val.anneal_step, <<1>>) >= 0
               /\ \/ BigCmp(options.val.anneal_step, configured.anneal_step) < 0
                  \/ options.val.anneal_step = <<1>>

(***************************************************************************)
(* Specification SpecNgrams: from_config on bounded config files           *)
(***************************************************************************)
MaxConfigLines == 2

OtherKind == <<"j", "s", "o", "n">>

ConfigLine(weight, kind, locator) == weight \o <<" ">> \o kind \o <<" ">> \o locator

ConfigLines ==
    { ConfigLine(<<"2">>, TextKind, <<"t">>),
      ConfigLine(<<"1">>, PregeneratedKind, <<"l", ";", "p", ";", "q">>),
      ConfigLine(<<"3">>, PregeneratedKind, <<"l", ";", "p", ";", "e">>),
      ConfigLine(<<"1">>, PregeneratedKind, <<"z", ";", "e", ";", "e">>),
      ConfigLine(<<"1">>, PregeneratedKind, <<"n", ";", "e", ";", "e">>),
      ConfigLine(<<"1">>, PregeneratedKind, <<"i", ";", "e", ";", "e">>),
      ConfigLine(<<"1">>, TextKind, <<"e">>),
      ConfigLine(<<"1">>, OtherKind, <<"t">>),
      <<"#", " ", "c">>,
      <<"2", " ">> \o OtherKind }

InitNgrams ==
    /\ ng_config \in SeqsUpTo(ConfigLines, MaxConfigLines)
    /\ ng_raw = NotRun
    /\ ng_norm = NotRun
    /\ ng_out = NotRun
    /\ ng_pc = "start"
    /\ ReadIdle /\ TextIdle /\ OptionsIdle /\ LayoutIdle /\ EvolveIdle /\ DeriveIdle

FromConfig ==
    /\ ng_pc = "start"
    /\ \E run \in FromConfigRuns(ng_config) :
           /\ ng_raw' = run.raw_vec
           /\ ng_norm' = run.normalized
           /\ ng_out' = run.result
    /\ ng_pc' = "done"
    /\ UNCHANGED <<ng_config, rd_vars, tx_vars, opt_vars, lay_vars, ev_vars, dv_vars>>

NextNgrams == FromConfig

SpecNgrams == InitNgrams /\ [][NextNgrams]_vars

\* The sources of a run: the RawNGrams of the lines that gave one.
Sources == 
    LET some == SelectSeq(ng_raw.val, LAMBDA raw : raw # None)
    IN  [i \in 1..Len(some) |-> some[i].val]

Returned == ng_pc = "done" /\ ng_out # Panic

Tables == {"letters", "bigrams", "trigrams"}

\* The sum over all three tables of a source or of a corpus.
SumOfTables(ngrams) ==
    FAdd(FAdd(FoldNgrams(Zero, ngrams.letters), FoldNgrams(Zero, ngrams.bigrams)),
         FoldNgrams(Zero, ngrams.trigrams))

KeysOf(table) == {table[i][1] : i \in 1..Len(table)}

\* The sum of the raw counts of a source over its three tables.
RawTotal(source) == SumOfTables(source)

One == FromInt(1)

\* The floating tolerance of the comparisons below, 1e-9
Tolerance == ParseF64(<<"1", "e", "-", "9">>).val

\* |x - y| <= 1e-9
Close(x, y) == FLe(FAbs(FSub(x, y)), Tolerance)

\* x != 0.0
NonZero(x) == ~FEq(x, Zero)

\* A source that holds counts as a corpus gives them: none of them negative
\* or NaN, their total neither zero nor infinite
Countable(source) ==
    /\ \A t \in Tables : \A k \in 1..Len(source[t]) : FLe(Zero, source[t][k][2])
    /\ NonZero(RawTotal(source))
    /\ ~IsInf(RawTotal(source))

\* C1 as claimed: for every ingested source with declared weight w and a
\* non-zero raw total, the scores normalize_ngrams produces sum to w, within
\* the tolerance.
C1_NormalizedSumIsWeight ==
    Returned =>
        \A i \in 1..Len(Sources) :
            Countable(Sources[i]) =>
                Close(SumOfTables(ng_norm.val[i]), Sources[i].weight)

\* C1 as amended: for every ingested source with a non-zero raw total (of
\* counts that are not negative, the total finite), the scores
\* normalize_ngrams produces sum to 1, within the tolerance, and the
\* declared weight is carried along unchanged; the weight is applied in
\* collect_normalized_ngrams, so the corpus of a single source sums to w.
C1_NormalizedSumIsOne ==
    Returned =>
        /\ Len(ng_norm.val) = Len(Sources)
        /\ \A i \in 1..Len(Sources) :
               /\ ng_norm.val[i].weight = Sources[i].weight
               /\ Countable(Sources[i]) => Close(SumOfTables(ng_norm.val[i]), One)
        /\ (Len(Sources) = 1 /\ Countable(Sources[1])) =>
               Close(SumOfTables(ng_out.val), Sources[1].weight)

\* A source of weight 2 with counts in all three tables was normalized.
C1_Witness ==
    /\ Returned
    /\ \E i \in 1..Len(Sources) :
           /\ Sources[i].weight = FromInt(2)
           /\ Countable(Sources[i])
           /\ Sources[i].bigrams # <<>>
    /\ \E i \in 1..Len(Sources) :
           /\ Countable(Sources[i])
           /\ Sources[i].trigrams # <<>>

RECURSIVE SumOver(_, _)
\* The sum of f[i] over the indices i in S.
SumOver(f, S) ==
    IF S = {} THEN Zero
    ELSE LET i == CHOOSE j \in S : TRUE
         IN  FAdd(f[i], SumOver(f, S \ {i}))

\* The raw count of ngram g in a table (all of its entries together).
CountOf(table, g) ==
    SumOver([i \in 1..Len(table) |-> table[i][2]],
            {i \in 1..Len(table) : table[i][1] = g})

\* weight_i * norm_i(g): 0 when g is absent from the source's table.
Contribution(source, t, g) ==
    IF g \notin KeysOf(source[t]) THEN Zero
    ELSE FMul(source.weight, FDiv(CountOf(source[t], g), RawTotal(source)))

\* The normalized sources in the order perm.
Permuted(normalized, perm) == [i \in 1..Len(normalized) |-> normalized[perm[i]]]

\* The HashMap that collect_normalized_ngrams fills for table t
MapOf(maps, t) ==
    CASE t = "letters" -> maps.letter_weight
      [] t = "bigrams" -> maps.bigram_weight
      [] t = "trigrams" -> maps.trigram_weight

\* The same score: within the tolerance, or the same infinity or NaN twice
SameScore(x, y) == x = y \/ Close(x, y)

\* C2: in each of the three merged tables every ngram of any source appears
\* exactly once, with the score sum_i weight_i * count_i(g) / total_i, and
\* merging the sources in any other order gives the same tables; the scores
\* are f64 sums, the same within the tolerance.
C2_MergeIsWeightedSum ==
    Returned =>
        /\ \A t \in Tables :
               LET table == ng_out.val[t]
               IN  /\ KeysOf(table) = UNION {KeysOf(Sources[i][t]) : i \in 1..Len(Sources)}
                   /\ Cardinality(KeysOf(table)) = Len(table)
                   /\ \A k \in 1..Len(table) :
                          SameScore(table[k][2],
                                    SumOver([i \in 1..Len(Sources) |->
                                                Contribution(Sources[i], t, table[k][1])],
                                            1..Len(Sources)))
        /\ \A perm \in Enumerations(1..Len(ng_norm.val)) :
               \E maps \in {CollectMaps(NoMaps, Permuted(ng_norm.val, perm))} :
                   \A t \in Tables :
                       LET table == ng_out.val[t]
                       IN  /\ KeysOf(table) = DOMAIN MapOf(maps, t)
                           /\ \A k \in 1..Len(table) :
                                  SameScore(table[k][2], MapOf(maps, t)[table[k][1]])

\* Two sources of different weights were merged that share a letter and a
\* pair, one of them holding an ngram the other lacks.
C2_Witness ==
    /\ Returned
    /\ Len(Sources) = 2
    /\ Sources[1].weight # Sources[2].weight
    /\ KeysOf(Sources[1].letters) \cap KeysOf(Sources[2].letters) # {}
    /\ KeysOf(Sources[1].bigrams) \cap KeysOf(Sources[2].bigrams) # {}
    /\ \E t \in Tables : KeysOf(Sources[1][t]) \ KeysOf(Sources[2][t]) # {}
    /\ NonZero(RawTotal(Sources[1])) /\ NonZero(RawTotal(Sources[2]))

EmptyCorpusError == [tag |-> "EmptyCorpusError"]

\* A score that a division by zero left: NaN or an infinity
HasUndefined(ngrams) ==
    \E t \in Tables : \E k \in 1..Len(ngrams[t]) :
        IsNaN(ngrams[t][k][2]) \/ IsInf(ngrams[t][k][2])

\* C3: when a source's total count is zero, from_config ends in
\* EmptyCorpusError, and no corpus with an undefined score is ever returned.
C3_EmptyCorpusIsAnError ==
    Returned =>
        /\ (\E i \in 1..Len(Sources) : FEq(RawTotal(Sources[i]), Zero)) =>
               ng_out = EmptyCorpusError
        /\ ng_out.tag = "ok" => ~HasUndefined(ng_out.val)

\* A config line in the documented form "<weight> <kind> <locator>" whose kind
\* is neither text nor pregenerated.
IsUnsupported(line) ==
    LET parts == NonEmptyParts(line)
    IN  /\ ~(line # <<>> /\ Head(line) = "#")
        /\ Len(parts) >= 3
        /\ ParseF64(parts[1]) # Panic
        /\ parts[2] \notin {TextKind, PregeneratedKind}

WithoutUnsupported(config) == SelectSeq(config, LAMBDA line : ~IsUnsupported(line))

\* C5: a config line of an unsupported kind is skipped (it yields None and
\* no source) and the other lines are processed as if it were not there:
\* what from_config returns is what it returns for the config without the
\* unsupported lines, and the other way round.
C5_UnsupportedKindSkipped ==
    /\ ng_pc = "start" =>
           from_config(WithoutUnsupported(ng_config)) \subseteq from_config(ng_config)
    /\ ng_pc = "done" =>
           /\ ng_out \in from_config(WithoutUnsupported(ng_config))
           /\ ng_out # Panic =>
                  LET lines == RemoveComments(ng_config)
                  IN  /\ \A i \in 1..Len(lines) :
                             IsUnsupported(lines[i]) <=> ng_raw.val[i] = None
                      /\ Len(ng_norm.val) = Len(WithoutUnsupported(lines))

\* A config with an unsupported line and a source that fills the corpus was
\* processed to the end.
C5_Witness ==
    /\ Returned
    /\ \E i \in 1..Len(ng_config) : IsUnsupported(ng_config[i])
    /\ ng_out.val.letters # <<>>

(***************************************************************************)
(* Specification SpecLayout: from_blueprint and swaps on bounded           *)
(* Blueprints.  The keyboard has the rows and slots of RowSlots and        *)
(* NumLayers layers; a Blueprint holds "" in every cell but at most        *)
(* MaxPlaced cells, which hold a character of Chars.                       *)
(***************************************************************************)
RowSlots == <<3, 3>>

NumLayers == 2

MaxPlaced == 2

MaxSwaps == 2

Chars == {"a", "b"}

GridCells ==
    UNION {{<<r, k, l>> : k \in 0..(RowSlots[r + 1] - 1), l \in 0..(NumLayers - 1)} :
              r \in 0..(Len(RowSlots) - 1)}

\* The Blueprint holding placed[pos] at the cells of DOMAIN placed.
BlueprintOf(placed) ==
    [r \in 1..Len(RowSlots) |->
        [k \in 1..RowSlots[r] |->
            [l \in 1..NumLayers |->
                IF <<r - 1, k - 1, l - 1>> \in DOMAIN placed
                THEN placed[<<r - 1, k - 1, l - 1>>]
                ELSE ""]]]

Blueprints ==
    {BlueprintOf(placed) :
        placed \in UNION {[cells -> Chars] :
                            cells \in {c \in SUBSET GridCells : Cardinality(c) <= MaxPlaced}}}

InitLayout ==
    /\ lay_given \in Blueprints
    /\ lay_layout = NotRun
    /\ lay_swaps = <<>>
    /\ lay_pc = "start"
    /\ ReadIdle /\ TextIdle /\ OptionsIdle /\ NgramsIdle /\ EvolveIdle /\ DeriveIdle

FromBlueprint ==
    /\ lay_pc = "start"
    /\ lay_layout' = from_blueprint(lay_given)
    /\ lay_pc' = "built"
    /\ UNCHANGED <<lay_given, lay_swaps, rd_vars, tx_vars, opt_vars, ng_vars, ev_vars, dv_vars>>

\* Every outcome of new_alphabet.shuffle(&mut thread_rng()).
Shuffles(alphabet) ==
    {[i \in 1..Len(alphabet) |-> alphabet[order[i]]] :
        order \in Enumerations(1..Len(alphabet))}

\* self.get_randomized_variant(alphabet, steps) on the Layout built, the
\* shuffle giving new_alphabet: the Layout returned, or Panic
VariantOf(call) == IF call = Panic THEN Panic ELSE Ok(call.val.result)

Swapped(alphabet, new_alphabet) ==
    VariantOf(get_randomized_variant(lay_layout.val, alphabet, 1, new_alphabet))

\* A call for the alphabet of any two characters: the code's swap of the two
\* when the shuffle reverses them.
ApplySwap ==
    /\ lay_pc = "built" /\ lay_layout # Panic /\ lay_swaps = <<>>
    /\ \E a \in Chars, b \in Chars :
           \E new_alphabet \in Shuffles(<<a, b>>) :
               /\ lay_layout' = Swapped(<<a, b>>, new_alphabet)
               /\ lay_swaps' = <<[alphabet |-> <<a, b>>, new_alphabet |-> new_alphabet]>>
    /\ UNCHANGED <<lay_given, lay_pc, rd_vars, tx_vars, opt_vars, ng_vars, ev_vars, dv_vars>>

\* The call once more on the Layout returned, the alphabet shuffled again.
SwapAgain ==
    /\ lay_pc = "built" /\ lay_layout # Panic
    /\ lay_swaps # <<>> /\ Len(lay_swaps) < MaxSwaps
    /\ \E new_alphabet \in Shuffles(lay_swaps[1].alphabet) :
           /\ lay_layout' = Swapped(lay_swaps[1].alphabet, new_alphabet)
           /\ lay_swaps' = Append(lay_swaps, [alphabet |-> lay_swaps[1].alphabet,
                                              new_alphabet |-> new_alphabet])
    /\ UNCHANGED <<lay_given, lay_pc, rd_vars, tx_vars, opt_vars, ng_vars, ev_vars, dv_vars>>

NextLayout == FromBlueprint \/ ApplySwap \/ SwapAgain

SpecLayout == InitLayout /\ [][NextLayout]_vars

Built == lay_pc = "built" /\ lay_layout # Panic

\* The cells of a Blueprint and the cells holding char.
CellsOf(blueprint) ==
    UNION {UNION {{<<r - 1, k - 1, l - 1>> : l \in DOMAIN blueprint[r][k]} :
                     k \in DOMAIN blueprint[r]} :
              r \in DOMAIN blueprint}

Content(blueprint, pos) == blueprint[pos[1] + 1][pos[2] + 1][pos[3] + 1]

CellsHolding(blueprint, char) ==
    {pos \in CellsOf(blueprint) : Content(blueprint, pos) = char}

CharsIn(blueprint) == {Content(blueprint, pos) : pos \in CellsOf(blueprint)}

\* p comes no later than q in the row, slot, layer iteration order.
NoLater(p, q) ==
    \/ p[1] < q[1]
    \/ p[1] = q[1] /\ p[2] < q[2]
    \/ p[1] = q[1] /\ p[2] = q[2] /\ p[3] <= q[3]

\* C6: a character occurring at more than one cell is assigned the cell of
\* lowest single_key_position_cost among the cells holding it, the first of
\* them in iteration order when several cost the same.
C6_LowestCostCellKept ==
    Built =>
        LET layout == lay_layout.val
        IN  \A c \in CharsIn(layout.blueprint) :
                Cardinality(CellsHolding(layout.blueprint, c)) > 1 =>
                    LET kept == layout.char_pos_dict[c]
                    IN  \A q \in CellsHolding(layout.blueprint, c) :
                            \/ single_key_position_cost(kept) < single_key_position_cost(q)
                            \/ /\ single_key_position_cost(kept) = single_key_position_cost(q)
                               /\ NoLater(kept, q)

\* C7: the caches of every Layout agree with its Blueprint: the character
\* caches have exactly the Blueprint's characters as keys, the cell cached
\* for a character holds it and its cached finger is the finger of that
\* cell's row and slot; the position caches have exactly the Blueprint's
\* cells as keys and pos_char_dict gives each cell's content.
C7_CachesMatchBlueprint ==
    Built =>
        LET layout == lay_layout.val
        IN  /\ DOMAIN layout.char_pos_dict = CharsIn(layout.blueprint)
            /\ DOMAIN layout.char_finger_dict = CharsIn(layout.blueprint)
            /\ \A c \in CharsIn(layout.blueprint) :
                   /\ layout.char_pos_dict[c] \in CellsHolding(layout.blueprint, c)
                   /\ layout.pos_char_dict[layout.char_pos_dict[c]] = c
                   /\ layout.char_finger_dict[c] = FingerAt(layout.char_pos_dict[c])
            /\ DOMAIN layout.pos_char_dict = CellsOf(layout.blueprint)
            /\ DOMAIN layout.pos_is_left_dict = CellsOf(layout.blueprint)
            /\ \A pos \in CellsOf(layout.blueprint) :
                   layout.pos_char_dict[pos] = Content(layout.blueprint, pos)
            /\ lay_swaps = <<>> => layout.blueprint = lay_given

\* A Layout was built from a Blueprint in which a character sits at cells of
\* two different fingers, the cached one not being the first.
C7_Witness ==
    /\ Built
    /\ \E p \in CellsHolding(lay_layout.val.blueprint, "a") :
           /\ FingerAt(p) # FingerAt(lay_layout.val.char_pos_dict["a"])
           /\ NoLater(p, lay_layout.val.char_pos_dict["a"])

\* A call whose shuffle reversed the two characters: a swap of the two
IsSwap(call) == call.new_alphabet = <<call.alphabet[2], call.alphabet[1]>>

\* C8: swapping a and b twice restores the Blueprint exactly; swapping them
\* once exchanges the layer-0 cells of a and b (both present there, a # b)
\* and leaves every other cell untouched.
C8_SwapTwiceRestores ==
    Built =>
        /\ (Len(lay_swaps) = 2 /\ IsSwap(lay_swaps[1]) /\ IsSwap(lay_swaps[2])) =>
               lay_layout.val.blueprint = lay_given
        /\ (/\ Len(lay_swaps) = 1 /\ IsSwap(lay_swaps[1])
            /\ lay_swaps[1].alphabet[1] # lay_swaps[1].alphabet[2]
            /\ \A c \in {lay_swaps[1].alphabet[1], lay_swaps[1].alphabet[2]} :
                   \E pos \in CellsHolding(lay_given, c) : pos[3] = 0) =>
               /\ CellsOf(lay_layout.val.blueprint) = CellsOf(lay_given)
               /\ \A pos \in CellsOf(lay_given) :
                      Content(lay_layout.val.blueprint, pos) =
                          IF pos[3] = 0 /\ Content(lay_given, pos) = lay_swaps[1].alphabet[1]
                          THEN lay_swaps[1].alphabet[2]
                          ELSE IF pos[3] = 0 /\ Content(lay_given, pos) = lay_swaps[1].alphabet[2]
                          THEN lay_swaps[1].alphabet[1]
                          ELSE Content(lay_given, pos)

(***************************************************************************)
(* Specification SpecEvolve: evolve_a_layout on a few ngrams configs and   *)
(* limits, base layouts, starting-layout strings and alphabets.            *)
(* ngram_data is local to evolve_a_layout and no Layout depends on it, but *)
(* a panic while it is read ends the call before any Layout is built.      *)
(***************************************************************************)
MaxPrerandomize == 2

MaxEvolveSteps == 2

\* Base layouts of two layers: the first row and the first slot of each row
\* hold fixed keys, as in the default base layout.
BaseLayouts ==
    { << << <<"^", "">>, <<"1", "">>, <<"2", "">> >>,
         << <<"T", "">>, <<"x", "X">>, <<"y", "Y">> >>,
         << <<"M", "">>, <<"u", "U">>, <<"i", "I">> >> >>,
      << << <<"^", "">>, <<"1", "">>, <<"2", "">> >>,
         << <<"T", "">>, <<"a", "A">>, <<"b", "B">> >>,
         << <<"M", "">>, <<"c", "C">>, <<"i", "I">> >> >>,
      << << <<"^", "">>, <<"1", "">>, <<"2", "">> >>,
         << <<"T", "">>, <<"b", "B">>, <<"a", "A">> >>,
         << <<"M", "">>, <<"c", "I">>, <<"i", "c">> >> >> }

StartingLayouts ==
    { <<>>, <<"a">>, <<"a", " ", "b">>, <<"b", "a", "\n", "c">>,
      <<"a", "b", "\n", "c", "i">>, <<"a", "b", "c">> }

Alphabets == { <<"a", "b">>, <<"a", "b", "c">>, <<"a">>, <<"b", "i", "a", "c">> }

\* The ngrams config files of the options: a source, no line at all, a
\* weight in words, a line cut short, and a path without a file
NgramsConfigs == { <<"g">>, <<"e">>, <<"w">>, <<"s">>, <<"m">> }

USIZE_BITS == 64         \* usize::BITS of the 64-bit targets

\* limit_ngrams is a u128, held as a number of any size: 0, 1 and 2^64
NgramLimits == { <<>>, <<1>>, BigShl(<<1>>, USIZE_BITS) }

\* limit.try_into() into usize, before the unwrap
TryIntoUsize(limit) == IF BigBitLen(limit) > USIZE_BITS THEN Panic ELSE Ok(limit)

\* Vec::truncate(len) for a len that fits usize
TruncateTo(vec, len) ==
    IF BigCmp(len, BigFromInt(Len(vec))) >= 0 THEN vec ELSE Truncate(vec, BigToInt(len))

\* The three truncate calls once try_into() has returned len
TruncateAll(ngram_data, len) ==
    IF len = Panic THEN Panic
    ELSE Ok([letters |-> TruncateTo(ngram_data.letters, len.val),
             bigrams |-> TruncateTo(ngram_data.bigrams, len.val),
             trigrams |-> TruncateTo(ngram_data.trigrams, len.val)])

\* if options.limit_ngrams > 0 { ... } on what from_config(...).unwrap() gave
LimitNgrams(ngram_data, limit_ngrams) ==
    IF ngram_data = Panic THEN Panic
    ELSE IF limit_ngrams = <<>> THEN ngram_data
    ELSE TruncateAll(ngram_data.val, TryIntoUsize(limit_ngrams))

\* Every ngram_data that the first statements of evolve_a_layout may leave,
\* Panic when one of them panics
LoadNgrams(opts) ==
    {LimitNgrams(ngram_data, opts.limit_ngrams) :
        ngram_data \in FromConfigPath(opts.ngrams_config)}

InitEvolve ==
    /\ ev_options \in [prerandomize : 0..MaxPrerandomize,
                       steps : 1..MaxEvolveSteps,
                       alphabet : Alphabets,
                       starting_layout : StartingLayouts,
                       base_layout : BaseLayouts,
                       ngrams_config : NgramsConfigs,
                       limit_ngrams : NgramLimits]
    /\ ev_ngrams = NotRun
    /\ ev_layout = NotRun
    /\ ev_new = NotRun
    /\ ev_calls = 0
    /\ ev_pc = "start"
    /\ ReadIdle /\ TextIdle /\ OptionsIdle /\ NgramsIdle /\ LayoutIdle /\ DeriveIdle

\* evolve_a_layout with prerandomize = 0: ngram_data is read and truncated,
\* and the body of "if options.prerandomize > 0" is left out.
EvolveNothing ==
    /\ ev_pc = "start"
    /\ ev_options.prerandomize = 0
    /\ ev_ngrams' \in LoadNgrams(ev_options)
    /\ ev_pc' = "done"
    /\ UNCHANGED <<ev_options, ev_layout, ev_new, ev_calls,
                   rd_vars, tx_vars, opt_vars, ng_vars, lay_vars, dv_vars>>

\* evolve_a_layout with prerandomize > 0, up to
\* let layout = Layout::from_args(&options);
\* which is not reached when ngram_data panics.
FromArgs ==
    /\ ev_pc = "start"
    /\ ev_options.prerandomize > 0
    /\ ev_ngrams' \in LoadNgrams(ev_options)
    /\ ev_layout' = IF ev_ngrams' = Panic THEN ev_layout ELSE from_args(ev_options)
    /\ ev_pc' = IF ev_ngrams' = Panic \/ ev_layout' = Panic THEN "done" ELSE "args"
    /\ UNCHANGED <<ev_options, ev_new, ev_calls,
                   rd_vars, tx_vars, opt_vars, ng_vars, lay_vars, dv_vars>>

\* let new = layout.get_randomized_variant(options.alphabet.clone(), options.steps);
GetRandomizedVariant ==
    /\ ev_pc = "args"
    /\ \E new_alphabet \in Shuffles(ev_options.alphabet) :
           \E call \in {get_randomized_variant(ev_layout.val, ev_options.alphabet,
                                                 ev_options.steps, new_alphabet)} :
               /\ ev_new' = IF call = Panic THEN Panic ELSE Ok(call.val.result)
               /\ ev_layout' = IF call = Panic THEN ev_layout ELSE Ok(call.val.self)
               /\ ev_calls' = IF call = Panic THEN ev_calls
                              ELSE ev_calls + Len(new_alphabet)
    /\ ev_pc' = "done"
    /\ UNCHANGED <<ev_options, ev_ngrams, rd_vars, tx_vars, opt_vars, ng_vars, lay_vars, dv_vars>>

NextEvolve == EvolveNothing \/ FromArgs \/ GetRandomizedVariant

SpecEvolve == InitEvolve /\ [][NextEvolve]_vars

\* The lines of the starting-layout string with its spaces removed.
StartingLines == Split(RemoveSpaces(ev_options.starting_layout), "\n")

\* The layer-0 cells the starting-layout string addresses.
Addressed ==
    {<<r, k, 0>> : r \in DOMAIN StartingLines, k \in 1..3} \cap
        {pos \in CellsOf(ev_options.base_layout) :
            pos[1] \in DOMAIN StartingLines /\ pos[2] \in DOMAIN StartingLines[pos[1]]}

FromArgsReturned == ev_pc \in {"args", "done"} /\ ev_layout \notin {NotRun, Panic}

\* C11: in the Layout from_args returns, the layer-0 cell at row r+1, slot
\* s+1 holds character s of line r of the starting-layout string with its
\* spaces removed, and every other cell holds the base layout's content.
C11_StartingLayoutOverridesBase ==
    FromArgsReturned =>
        LET blueprint == ev_layout.val.blueprint
        IN  /\ CellsOf(blueprint) = CellsOf(ev_options.base_layout)
            /\ \A pos \in CellsOf(blueprint) :
                   Content(blueprint, pos) =
                       IF pos \in Addressed THEN StartingLines[pos[1]][pos[2]]
                       ELSE Content(ev_options.base_layout, pos)

\* C12: evolve_a_layout performs exactly prerandomize replacements of a
\* character on the initial Blueprint, whatever the other options are, and
\* with prerandomize = 0 it derives no other layout.
C12_PrerandomizeCountsSwaps ==
    (ev_pc = "done" /\ ev_ngrams # Panic /\ ev_layout # Panic /\ ev_new # Panic) =>
        /\ ev_calls = ev_options.prerandomize
        /\ ev_options.prerandomize = 0 => ev_new = NotRun

(***************************************************************************)
(* Specification SpecDerive: any sequence of at most MaxDerive calls of    *)
(* merge_layout_string and get_randomized_variant on one Layout.           *)
(***************************************************************************)
MaxDerive == 3

InitDerive ==
    /\ dv_before \in {Ok(base_layout) : base_layout \in BaseLayouts}
    /\ dv_self = NotRun
    /\ dv_result = NotRun
    /\ dv_calls = <<>>
    /\ dv_pc = "start"
    /\ ReadIdle /\ TextIdle /\ OptionsIdle /\ NgramsIdle /\ LayoutIdle /\ EvolveIdle

\* Layout::from_blueprint(&blueprint) of get_base_layout
BuildBase ==
    /\ dv_pc = "start"
    /\ dv_self' = get_base_layout(dv_before.val)
    /\ dv_before' = dv_self'
    /\ dv_pc' = "built"
    /\ UNCHANGED <<dv_result, dv_calls,
                   rd_vars, tx_vars, opt_vars, ng_vars, lay_vars, ev_vars>>

\* The Layout after a call that panicked is the Layout before it.
AfterCall(call) == IF call = Panic THEN dv_self ELSE Ok(call.val.self)

ResultOf(call) == IF call = Panic THEN Panic ELSE Ok(call.val.result)

CallMergeLayoutString ==
    /\ dv_pc = "built" /\ dv_self # Panic /\ Len(dv_calls) < MaxDerive
    /\ \E layout_str \in StartingLayouts :
           \E call \in {merge_layout_string(dv_self.val, layout_str)} :
               dv_self' = AfterCall(call) /\ dv_result' = ResultOf(call)
    /\ dv_calls' = Append(dv_calls, "merge_layout_string")
    /\ UNCHANGED <<dv_before, dv_pc,
                   rd_vars, tx_vars, opt_vars, ng_vars, lay_vars, ev_vars>>

CallGetRandomizedVariant ==
    /\ dv_pc = "built" /\ dv_self # Panic /\ Len(dv_calls) < MaxDerive
    /\ \E alphabet \in Alphabets, steps \in 1..MaxEvolveSteps :
           \E new_alphabet \in Shuffles(alphabet) :
               \E call \in {get_randomized_variant(dv_self.val, alphabet, steps,
                                                     new_alphabet)} :
                   dv_self' = AfterCall(call) /\ dv_result' = ResultOf(call)
    /\ dv_calls' = Append(dv_calls, "get_randomized_variant")
    /\ UNCHANGED <<dv_before, dv_pc,
                   rd_vars, tx_vars, opt_vars, ng_vars, lay_vars, ev_vars>>

NextDerive == BuildBase \/ CallMergeLayoutString \/ CallGetRandomizedVariant

SpecDerive == InitDerive /\ [][NextDerive]_vars

\* The row/slot/layer shape of a Blueprint.
Shape(blueprint) ==
    [r \in DOMAIN blueprint |-> [k \in DOMAIN blueprint[r] |-> Len(blueprint[r][k])]]

\* C13: after any sequence of merge_layout_string and get_randomized_variant
\* calls on a Layout, its Blueprint and its four caches are what they were
\* before the calls, and every Layout returned has the shape of its
\* Blueprint.
C13_ReceiverUnchanged ==
    (dv_pc = "built" /\ dv_self # Panic) =>
        /\ dv_self = dv_before
        /\ dv_result \notin {NotRun, Panic} =>
               Shape(dv_result.val.blueprint) = Shape(dv_before.val.blueprint)

\* Two calls were made and the last returned a Layout of another Blueprint.
C13_Witness ==
    /\ dv_pc = "built" /\ dv_self # Panic
    /\ Len(dv_calls) = 2 /\ dv_calls[1] # dv_calls[2]
    /\ dv_result \notin {NotRun, Panic}
    /\ dv_result.val.blueprint # dv_before.val.blueprint

(***************************************************************************)
(* Specification SpecFingers: from_blueprint on Blueprints of any shape    *)
(* up to MaxRows rows of MaxWidth one-layer keys, as a base layout file    *)
(* may give them.  Every cell holds one character but the last, which may  *)
(* hold another.                                                           *)
(***************************************************************************)
MaxRows == 6

MaxWidth == 9

ShapedBlueprint(rows, width, char, last_char) ==
    [r \in 1..rows |->
        [k \in 1..width |->
            <<IF r = rows /\ k = width THEN last_char ELSE char>>]]

ShapedBlueprints ==
    {ShapedBlueprint(rows, width, char, last_char) :
        rows \in 1..MaxRows, width \in 1..MaxWidth, char \in Chars, last_char \in Chars}

InitFingers ==
    /\ lay_given \in ShapedBlueprints
    /\ lay_layout = NotRun
    /\ lay_swaps = <<>>
    /\ lay_pc = "start"
    /\ ReadIdle /\ TextIdle /\ OptionsIdle /\ NgramsIdle /\ EvolveIdle /\ DeriveIdle

SpecFingers == InitFingers /\ [][FromBlueprint]_vars

\* The fingers FINGER_POS_LIST lists the row and slot of pos under.
TableFingers(pos) ==
    {FINGER_POS_LIST[i][1] :
        i \in {i \in DOMAIN FINGER_POS_LIST :
                  \E j \in DOMAIN FINGER_POS_LIST[i][2] :
                      FINGER_POS_LIST[i][2][j] = <<pos[1], pos[2], 0>>}}

\* C14: from_blueprint does not fail, whatever cells the Blueprint has; the
\* finger cached for a character is the one finger the table lists its row
\* and slot under, or "" when the table lists none; the table lists no row
\* and slot of the Blueprint under two fingers.
C14_UncoveredPositionsDoNotFail ==
    lay_pc = "built" =>
        /\ lay_layout # Panic
        /\ \A pos \in CellsOf(lay_given) : Cardinality(TableFingers(pos)) <= 1
        /\ \A c \in DOMAIN lay_layout.val.char_finger_dict :
               LET fingers == TableFingers(lay_layout.val.char_pos_dict[c])
               IN  IF fingers = {} THEN lay_layout.val.char_finger_dict[c] = ""
                   ELSE lay_layout.val.char_finger_dict[c] \in fingers

\* The layer-0 cells of blueprint holding char.
TopCellsHolding(blueprint, char) ==
    {pos \in CellsHolding(blueprint, char) : pos[3] = 0}

AlphabetChars == {ev_options.alphabet[i] : i \in DOMAIN ev_options.alphabet}

\* get_randomized_variant returned, called on a Layout whose layer 0 holds
\* each alphabet character exactly once.
VariantOfEachOnce ==
    /\ ev_pc = "done" /\ ev_layout \notin {NotRun, Panic} /\ ev_new \notin {NotRun, Panic}
    /\ \A c \in AlphabetChars :
           Cardinality(TopCellsHolding(ev_layout.val.blueprint, c)) = 1

\* C15: when layer 0 of the Layout holds each alphabet character exactly
\* once, the layer 0 of the Layout get_randomized_variant returns is a
\* permutation of it, whatever the shuffle: every character occurs as often
\* as before, and a cell holding no alphabet character is unchanged.
C15_VariantPermutesLayerZero ==
    VariantOfEachOnce =>
        LET old == ev_layout.val.blueprint
            new == ev_new.val.blueprint
        IN  /\ CellsOf(new) = CellsOf(old)
            /\ \A c \in CharsIn(old) \cup CharsIn(new) :
                   Cardinality(TopCellsHolding(new, c)) =
                       Cardinality(TopCellsHolding(old, c))
            /\ \A pos \in CellsOf(old) :
                   (pos[3] = 0 /\ Content(old, pos) \notin AlphabetChars) =>
                       Content(new, pos) = Content(old, pos)

\* A variant for an alphabet of three characters or more whose Blueprint is
\* not the one it was derived from.
C15_Witness ==
    /\ VariantOfEachOnce
    /\ Len(ev_options.alphabet) >= 3
    /\ ev_new.val.blueprint # ev_layout.val.blueprint

====
